---- MODULE Spec2Model ----
(***************************************************************************)
(* A model of the acquisition side of SGA (simple GEO analyzer):           *)
(*   modules/utils/parse_interpreter.py  the index-expression parser       *)
(*   modules/data_loader.py              DataLoader                        *)
(* A Python str is a sequence of one-character strings; None is the empty  *)
(* tuple and a present optional value x is <<x>>.                          *)
(***************************************************************************)
EXTENDS Integers, Sequences, FiniteSets, TLC

\* ------------------------------------------------------------------ bounds

\* longest line the operator types at a prompt of the parser on its own
MaxLineLen == 3

\* longest answer the operator types at the confirmation prompt
MaxAnswerLen == 1

\* largest number of presented candidates (max_length) besides the spec's 10
MaxCandidates == 2

\* ----------------------------------------------------------- Python strings

Digits == {"0", "1", "2", "3", "4", "5", "6", "7", "8", "9"}

Whitespace == {" "}

DigitVal(c) ==
    CASE c = "0" -> 0 [] c = "1" -> 1 [] c = "2" -> 2 [] c = "3" -> 3
      [] c = "4" -> 4 [] c = "5" -> 5 [] c = "6" -> 6 [] c = "7" -> 7
      [] c = "8" -> 8 [] c = "9" -> 9

\* the value None and the optional value x
None == <<>>

Some(x) == <<x>>

\* truthiness of an Optional[str] argument: None and "" are both falsy
TruthyStr(o) == o # None /\ o[1] # <<>>

\* truthiness of an Optional[int] argument: None and 0 are both falsy
TruthyInt(o) == o # None /\ o[1] # 0

RECURSIVE lstrip(_)
lstrip(s) ==
    IF s # <<>> /\ Head(s) \in Whitespace THEN lstrip(Tail(s)) ELSE s

RECURSIVE rstrip(_)
rstrip(s) ==
    IF s # <<>> /\ s[Len(s)] \in Whitespace
    THEN rstrip(SubSeq(s, 1, Len(s) - 1))
    ELSE s

\* str.strip()
strip(s) == rstrip(lstrip(s))

\* str.split(sep) for a one-character sep: "".split(",") is [""]
RECURSIVE split(_, _)
split(s, sep) ==
    IF s = <<>> THEN << <<>> >>
    ELSE LET rest == split(Tail(s), sep)
         IN  IF Head(s) = sep
             THEN << <<>> >> \o rest
             ELSE << <<Head(s)>> \o Head(rest) >> \o Tail(rest)

\* a in b, for strings: the substring test (the empty string is in every string)
StrIn(a, b) ==
    \E i \in 0..(Len(b) - Len(a)) : SubSeq(b, i + 1, i + Len(a)) = a

\* str.isdigit(): false for the empty string
isdigit(s) == s # <<>> /\ \A i \in 1..Len(s) : s[i] \in Digits

\* list(str): the characters, each a string of length one
list(s) == [i \in 1..Len(s) |-> <<s[i]>>]

\* is_digit(ls): every element is a digit string; true of the empty list
is_digit(ls) == \A i \in 1..Len(ls) : isdigit(ls[i])

\* int(s) of a string of decimal digits
RECURSIVE int(_)
int(s) ==
    IF s = <<>> THEN 0
    ELSE 10 * int(SubSeq(s, 1, Len(s) - 1)) + DigitVal(s[Len(s)])

\* int(s) raises ValueError unless s is a literal: here, a non-empty digit string
IntRaises(s) == ~ isdigit(s)

\* list(range(a, b))
range(a, b) == IF b > a THEN [i \in 1..(b - a) |-> a + i - 1] ELSE <<>>

\* set(l)
set(l) == {l[i] : i \in 1..Len(l)}

\* sorted(S) of a set of integers
RECURSIVE sorted(_)
sorted(S) ==
    IF S = {} THEN <<>>
    ELSE LET m == CHOOSE x \in S : \A y \in S : x <= y
         IN  <<m>> \o sorted(S \ {m})

\* every string over A of length at most n
RECURSIVE StringsUpTo(_, _)
StringsUpTo(A, n) ==
    IF n = 0 THEN {<<>>}
    ELSE LET S == StringsUpTo(A, n - 1)
         IN  S \cup {Append(s, c) : s \in {t \in S : Len(t) = n - 1}, c \in A}

\* ------------------------------------------------- parse_interpreter: state

VARIABLES
    pi_pc,          \* "idle" | "prompt" (line 24) | "line" (line 25) |
                    \* "confirm" (line 69) | "returned" | "raised"
    number_parse,   \* argument: Optional[str]
    max_length,     \* argument: Optional[int]
    whitelist,      \* argument: Optional[str]
    parse,          \* local: the line being interpreted
    result_list,    \* local: the list built from it
    is_confirm,     \* local: the answer to the confirmation prompt
    shown,          \* the list echoed in the pending/last confirmation prompt
    out,            \* what the function printed since it last read input
    pi_ret,         \* the value returned
    pi_exc          \* the exception it raised, "" when none

pvars == <<pi_pc, number_parse, max_length, whitelist, parse, result_list,
           is_confirm, shown, out, pi_ret, pi_exc>>

\* the characters the operator types
Alphabet == {"0", "1", "2", ":", ",", "m", " "}

\* lines of the spec's examples and of the unpacking at line 52
ExampleLines ==
    { <<"1", ":", "3", ",", "5">>, <<"1", ":", "2", ":", "3">> }

Lines == StringsUpTo(Alphabet, MaxLineLen) \cup ExampleLines

Answers == StringsUpTo({"y", "n"}, MaxAnswerLen)

\* the strings given as number_parse
NumberParseArgs == {l \in Lines : Len(l) < MaxLineLen}

MaxLengths == (0..MaxCandidates) \cup {10}

\* the three shapes of a returned value: list[int], str, None
RetList(l) == [kind |-> "list", list |-> l, str |-> <<>>]

RetStr(s) == [kind |-> "str", list |-> <<>>, str |-> s]

RetNone == [kind |-> "None", list |-> <<>>, str |-> <<>>]

\* ------------------------------------------- parse_interpreter: one iteration

\* the for loop of lines 39-54 from position index on: the list built, and
\* whether the loop ran through ("ok"), broke with error_catcher set ("error")
\* or raised ValueError (int("") at line 47, the unpacking at line 52)
RECURSIVE ScanTokens(_, _, _)
ScanTokens(parse_split, index, acc) ==
    IF index > Len(parse_split)
    THEN [status |-> "ok", result_list |-> acc]
    ELSE LET single_parse == strip(parse_split[index])
         IN  IF ~ StrIn(<<":">>, single_parse)
             THEN IF ~ is_digit(list(single_parse))
                  THEN [status |-> "error", result_list |-> acc]
                  ELSE IF IntRaises(single_parse)
                  THEN [status |-> "ValueError", result_list |-> acc]
                  ELSE ScanTokens(parse_split, index + 1,
                                  Append(acc, int(single_parse)))
             ELSE LET parts == split(single_parse, ":")
                  IN  IF ~ is_digit(parts)
                      THEN [status |-> "error", result_list |-> acc]
                      ELSE IF Len(parts) # 2
                      THEN [status |-> "ValueError", result_list |-> acc]
                      ELSE ScanTokens(parse_split, index + 1,
                               acc \o range(int(parts[1]), int(parts[2]) + 1))

\* line 32: the tokens, each stripped
SplitLine(line) ==
    LET toks == split(line, ",") IN [i \in 1..Len(toks) |-> strip(toks[i])]

\* line 56 without the set and the sort
Normalise_asBuilt(l) == l

\* line 56
Normalise(l) == sorted(set(l))

\* lines 59-65: some number of the list is over the limit
LimitOf(ml) == ml + 1

IsOutOfRange(l, ml) ==
    TruthyInt(ml) /\ \E i \in 1..Len(l) : l[i] > LimitOf(ml[1])

\* lines 29-31: the line is let through as a whitelisted token
IsWhitelisted(line, wl) == TruthyStr(wl) /\ StrIn(strip(line), wl[1])

\* line 70 testing for the wrong answer
Discards_onYes(answer) == answer = <<"y">>

\* line 70: the answer that discards the list
Discards(answer) == answer = <<"n">>

\* "continue": back to line 24; the locals of the iteration are dead
PI_Continue(msgs) ==
    /\ pi_pc' = "prompt"
    /\ parse' = <<>>
    /\ result_list' = <<>>
    /\ out' = msgs
    /\ UNCHANGED <<number_parse, max_length, whitelist, is_confirm, shown,
                   pi_ret, pi_exc>>

PI_Return(v) ==
    /\ pi_pc' = "returned"
    /\ pi_ret' = v
    /\ UNCHANGED <<number_parse, max_length, whitelist, parse, pi_exc>>

\* a call of parse_interpreter(number_parse, prompt, max_length, whitelist)
PI_Call(np, ml, wl) ==
    /\ pi_pc' = "prompt"
    /\ number_parse' = np
    /\ max_length' = ml
    /\ whitelist' = wl
    /\ parse' = <<>>
    /\ result_list' = <<>>
    /\ is_confirm' = None
    /\ shown' = None
    /\ out' = <<>>
    /\ pi_ret' = RetNone
    /\ pi_exc' = ""

\* line 24: read a line from the operator, unless number_parse was given
PI_ReadFrom(S) ==
    /\ pi_pc = "prompt"
    /\ \E l \in (IF TruthyStr(number_parse) THEN {number_parse[1]} ELSE S) :
          parse' = l
    /\ pi_pc' = "line"
    /\ is_confirm' = None
    /\ out' = <<>>
    /\ UNCHANGED <<number_parse, max_length, whitelist, result_list,
                   shown, pi_ret, pi_exc>>

\* lines 25-65 and 74-80: from the line read to the next prompt, the
\* confirmation prompt, a return or an exception
PI_Interpret ==
    /\ pi_pc = "line"
    /\ IF parse = <<>>
       THEN PI_Continue(<<"empty">>)
       ELSE IF IsWhitelisted(parse, whitelist)
       THEN /\ PI_Return(RetStr(parse))
            /\ UNCHANGED <<result_list, is_confirm, shown, out>>
       ELSE LET scan == ScanTokens(SplitLine(parse), 1, <<>>)
                rl   == Normalise(scan.result_list)
                big  == scan.status = "ok" /\ IsOutOfRange(rl, max_length)
                msgs == IF big THEN <<"too_large", "invalid">>
                               ELSE <<"invalid">>
            IN  IF scan.status = "ValueError"
                THEN /\ pi_pc' = "raised"
                     /\ pi_exc' = "ValueError"
                     /\ result_list' = scan.result_list
                     /\ UNCHANGED <<number_parse, max_length, whitelist, parse,
                                    is_confirm, shown, out, pi_ret>>
                ELSE IF scan.status = "error" \/ big
                THEN IF TruthyStr(number_parse)
                     THEN /\ PI_Return(RetNone)
                          /\ result_list' = rl
                          /\ out' = msgs
                          /\ UNCHANGED <<is_confirm, shown>>
                     ELSE PI_Continue(msgs)
                ELSE /\ pi_pc' = "confirm"
                     /\ result_list' = rl
                     /\ shown' = Some(rl)
                     /\ UNCHANGED <<number_parse, max_length, whitelist, parse,
                                    is_confirm, out, pi_ret, pi_exc>>

\* lines 69-72 and 82: the answer to the confirmation prompt
PI_ConfirmFrom(S) ==
    /\ pi_pc = "confirm"
    /\ \E a \in S :
          /\ is_confirm' = Some(a)
          /\ IF Discards(a)
             THEN /\ pi_pc' = "prompt"
                  /\ parse' = <<>>
                  /\ result_list' = <<>>
                  /\ shown' = None
                  /\ out' = <<"discarded">>
                  /\ UNCHANGED <<number_parse, max_length, whitelist,
                                 pi_ret, pi_exc>>
             ELSE /\ PI_Return(RetList(result_list))
                  /\ UNCHANGED <<result_list, shown, out>>

\* ---------------------------------------------------------- pandas tables

\* a DataFrame: the column names and the row labels in order, and the cells
Table(cols, idx, cell) == [columns |-> cols, index |-> idx, cell |-> cell]

\* df[col]: the values of a column, in row order
Column(df, col) == [i \in 1..Len(df.index) |-> df.cell[df.index[i]][col]]

\* Series.unique(): the distinct values in order of first appearance
RECURSIVE unique(_)
unique(s) ==
    IF s = <<>> THEN <<>>
    ELSE LET u == unique(SubSeq(s, 1, Len(s) - 1))
         IN  IF s[Len(s)] \in set(u) THEN u ELSE Append(u, s[Len(s)])

\* the row labels of df whose value in col is one of target_groups, in order
RECURSIVE RowsIn(_, _, _, _)
RowsIn(df, idx, col, target_groups) ==
    IF idx = <<>> THEN <<>>
    ELSE LET rest == RowsIn(df, Tail(idx), col, target_groups)
         IN  IF df.cell[Head(idx)][col] \in set(target_groups)
             THEN <<Head(idx)>> \o rest
             ELSE rest

\* df[df[col].isin(target_groups)]
FilterIsin(df, col, target_groups) ==
    [df EXCEPT !.index = RowsIn(df, df.index, col, target_groups)]

\* ------------------------------------------- DataLoader and _group_select

VARIABLES
    _data,           \* DataLoader._data: Optional[bundle]
    _chosen_meta,    \* DataLoader._chosen_meta: Optional[table]
    _download_data,  \* DataLoader._download_data: Optional[dict]
    gs_pc,           \* "idle" | "groups" (line 247) | "cols" (line 258) |
                     \* "returned" | "raised"
    gs_meta,         \* argument meta
    current_col,     \* local
    selected_col,    \* local: Optional, the last column selection
    selected_group_indices,  \* local: the last value of line 247
    gs_exc           \* the exception that left _group_select, and its line

ovars == <<_data, _chosen_meta, _download_data>>

gvars == <<gs_pc, gs_meta, current_col, selected_col, selected_group_indices,
           gs_exc>>

NoExc == [type |-> "", line |-> 0]

Exc(t, l) == [type |-> t, line |-> l]

\* line 238
DefaultColumn(meta) ==
    IF "title" \in set(meta.columns) THEN "title" ELSE meta.columns[1]

\* line 241
UniqueGroups(meta, col) == unique(Column(meta, col))

\* line 263 taking the last index of the selection
ChosenColumn_last(meta, sel) == meta.columns[sel[Len(sel)] + 1]

\* line 263: columns are numbered from 0
ChosenColumn(meta, sel) == meta.columns[sel[1] + 1]

\* line 268
TargetGroups(unique_groups, sel) ==
    [k \in 1..Len(sel) |-> unique_groups[sel[k] + 1]]

\* lines 241-251: print the groups of the column, ask for their numbers
GS_AskGroups(meta, col) ==
    PI_Call(None, Some(Len(UniqueGroups(meta, col))), Some(<<"m">>))

GS_Raise(e) ==
    /\ gs_pc' = "raised"
    /\ gs_exc' = e

\* lines 231-251: the call, up to the first prompt
GS_Call(meta) ==
    /\ gs_meta' = meta
    /\ selected_col' = None
    /\ selected_group_indices' = RetNone
    /\ IF meta.columns = <<>>
       THEN /\ GS_Raise(Exc("IndexError", 238))
            /\ current_col' = ""
            /\ UNCHANGED pvars
       ELSE /\ current_col' = DefaultColumn(meta)
            /\ gs_pc' = "groups"
            /\ gs_exc' = NoExc
            /\ GS_AskGroups(meta, DefaultColumn(meta))

\* lines 247-271: parse_interpreter came back with the groups
GS_Groups ==
    /\ gs_pc = "groups"
    /\ pi_pc \in {"returned", "raised"}
    /\ UNCHANGED <<gs_meta, current_col, selected_col, _data, _download_data>>
    /\ IF pi_pc = "raised"
       THEN /\ GS_Raise(Exc(pi_exc, 247))
            /\ UNCHANGED <<selected_group_indices, _chosen_meta, pvars>>
       ELSE /\ selected_group_indices' = pi_ret
            /\ IF pi_ret.kind = "str" /\ pi_ret.str = <<"m">>
               THEN /\ gs_pc' = "cols"
                    /\ PI_Call(None, Some(Len(gs_meta.columns)), None)
                    /\ UNCHANGED <<gs_exc, _chosen_meta>>
               ELSE IF pi_ret.kind = "list"
               THEN LET unique_groups == UniqueGroups(gs_meta, current_col)
                    IN  IF \E k \in 1..Len(pi_ret.list) :
                               pi_ret.list[k] >= Len(unique_groups)
                        THEN /\ GS_Raise(Exc("IndexError", 268))
                             /\ UNCHANGED <<_chosen_meta, pvars>>
                        ELSE /\ _chosen_meta' = Some(FilterIsin(gs_meta,
                                    current_col,
                                    TargetGroups(unique_groups, pi_ret.list)))
                             /\ gs_pc' = "returned"
                             /\ UNCHANGED <<gs_exc, pvars>>
               ELSE /\ GS_AskGroups(gs_meta, current_col)
                    /\ UNCHANGED <<gs_pc, gs_exc, _chosen_meta>>

\* lines 258-264: parse_interpreter came back with the column
GS_Cols ==
    /\ gs_pc = "cols"
    /\ pi_pc \in {"returned", "raised"}
    /\ UNCHANGED <<gs_meta, selected_group_indices, ovars>>
    /\ IF pi_pc = "raised"
       THEN /\ GS_Raise(Exc(pi_exc, 258))
            /\ UNCHANGED <<current_col, selected_col, pvars>>
       ELSE IF pi_ret.kind # "list"
       THEN /\ GS_Raise(Exc("TypeError", 263))
            /\ UNCHANGED <<current_col, selected_col, pvars>>
       ELSE /\ selected_col' = Some(pi_ret.list)
            /\ IF pi_ret.list = <<>> \/ pi_ret.list[1] >= Len(gs_meta.columns)
               THEN /\ GS_Raise(Exc("IndexError", 263))
                    /\ UNCHANGED <<current_col, pvars>>
               ELSE /\ current_col' = ChosenColumn(gs_meta, pi_ret.list)
                    /\ gs_pc' = "groups"
                    /\ GS_AskGroups(gs_meta, ChosenColumn(gs_meta, pi_ret.list))
                    /\ UNCHANGED gs_exc

\* ------------------------------------------------------ DataLoader.loader

VARIABLES
    cfg,              \* the Config: gse_id, storage, strict_mode
    geo,              \* what GEO serves for the series: supplementary_file,
                      \* phenotype_data
    fs,               \* the names of the files in the dataset directory
    pkl,              \* the pickled bundle on disk with its path, None when
                      \* there is none
    l_pc,             \* "idle" | "file_select" (line 199) |
                      \* "download" (line 204) | "group_select" (line 224)
    gse,              \* local of loader(): Optional, the value of _get_gse()
    candidates,       \* local of _user_selection_flow
    todo,             \* the selected urls not yet visited by the loop at 204
    downloaded_data,  \* local of _user_selection_flow: names (path by name)
    l_ret,            \* what the last loader() call gave its caller
    fx,               \* what the current loader() call has done so far
    transfers         \* per file name, the completed network transfers

lvars == <<cfg, geo, fs, pkl, l_pc, gse, candidates, todo, downloaded_data,
           l_ret, fx, transfers>>

VARIABLES
    analyzer,     \* the Analyzer object: its class, DataAnalyzer.bundle,
                  \* _bundle and _ana_res
    bundle_file,  \* what is at FileAnalyzer.data_path
    res_files,    \* the result files of _data_storage: pkl and csv
    a_ret,        \* what the last calculate() call gave its caller
    a_ran,        \* whether that call, or the last read of significant, ran
                  \* _calculater
    sig           \* what the last read of significant gave its caller

avars == <<analyzer, bundle_file, res_files, a_ret, a_ran, sig>>

\* main (src/main.py)
VARIABLES
    m_pc,         \* where main is: "none" when no run of main is modelled
    debug,        \* Config.debug
    is_bundle,    \* main's is_bundle
    is_res_df,    \* main's is_res_df
    m_data,       \* main's data, the DataHandler: bundle and res_df
    calculater,   \* the class of main's analyzer, "none" before it is made
    plotter       \* the class of main's plotter, "none" before it is made

mvars == <<m_pc, debug, is_bundle, is_res_df, m_data, calculater, plotter>>

\* a url: scheme, directory, and the base name cut where the patterns of
\* lines 189-192 can match
Url(scheme, name) ==
    [scheme |-> scheme, dir |-> "ftp.ncbi.nlm.nih.gov/geo/series/GSE1/suppl/",
     name |-> name]

UrlCounts == Url("ftp://", <<"GSE1_raw", ".count", "s.tsv.gz">>)

UrlNotes == Url("https://", <<"GSE1_notes", ".txt">>)

UrlReadme == Url("ftp://", <<"README", ".txt">>)

UrlRaw == Url("ftp://", <<"GSE1_RAW", ".tar">>)

\* str.lower() of a piece of a url
lower(piece) ==
    CASE piece = "README" -> "readme"
      [] piece = "GSE1_raw" -> "gse1_raw"
      [] piece = "GSE1_notes" -> "gse1_notes"
      [] piece = "GSE1_RAW" -> "gse1_raw"
      [] OTHER -> piece

\* pat in f.lower()
InLower(pat, f) == \E k \in 1..Len(f.name) : lower(f.name[k]) = pat

\* os.path.basename(url)
basename(url) == url.name

\* lines 188-192
IsCandidate(f) ==
    /\ InLower(".matrix", f) \/ InLower(".count", f) \/ InLower(".txt", f)
    /\ ~ InLower("readme", f)

RECURSIVE Candidates(_)
Candidates(sp_files) ==
    IF sp_files = <<>> THEN <<>>
    ELSE IF IsCandidate(Head(sp_files))
         THEN <<Head(sp_files)>> \o Candidates(Tail(sp_files))
         ELSE Candidates(Tail(sp_files))

\* the file behind a name: whether pd.read_csv(compression="gzip") reads it,
\* and the sample columns of the matrix it holds
FileContent(name) ==
    IF name = UrlCounts.name
    THEN [gzip |-> TRUE, columns |-> <<"GSM2", "GSM3", "GSM4">>]
    ELSE [gzip |-> FALSE, columns |-> <<>>]

\* line 151: re.match(r'^GSE\d+$', gse_id)
IsGseId(id) ==
    /\ Len(id) > 3
    /\ SubSeq(id, 1, 3) = <<"G", "S", "E">>
    /\ isdigit(SubSeq(id, 4, Len(id)))

\* _get_gse, lines 145-172: the GSE object, or None after a logged exception
GetGse(config, served, net) ==
    IF ~ IsGseId(config.gse_id) THEN None
    ELSE IF net # "ok" THEN None
    ELSE Some(served)

\* what a loader() call has done: the outcome of GEOparse.get_GEO ("none" when
\* it was not called), whether a prompt was shown, the names requested from
\* the network, whether the bundle was pickled, and the line of
\* _user_selection_flow whose exception lines 226-229 logged (0 for none)
NoFx == [fetch |-> "none", prompted |-> FALSE, net |-> {}, persisted |-> FALSE,
         error |-> 0]

RetNothing == [kind |-> "none", bundle |-> None]

RetBundle(b) == [kind |-> "bundle", bundle |-> Some(b)]

RetRaised == [kind |-> "RuntimeError", bundle |-> None]

\* the alignment keeping every column of the matrix
intersection_columns(idx, cols) == cols

\* line 312: chosen_meta.index.intersection(df_temp.columns)
RECURSIVE intersection(_, _)
intersection(idx, cols) ==
    IF idx = <<>> THEN <<>>
    ELSE IF Head(idx) \in set(cols)
         THEN <<Head(idx)>> \o intersection(Tail(idx), cols)
         ELSE intersection(Tail(idx), cols)

\* lines 306-319: the bundle entry of a loaded file
BundleEntry(name, chosen_meta, strict_mode) ==
    IF strict_mode
    THEN LET common_samples ==
                 intersection(chosen_meta[1].index, FileContent(name).columns)
         IN  [kind |-> "aligned",
              matrix_aligned |-> common_samples,
              meta_aligned |-> common_samples]
    ELSE [kind |-> "matrix",
          matrix_aligned |-> FileContent(name).columns,
          meta_aligned |-> <<>>]

\* _build_bundle, lines 288-359: the bundle, or None after a logged exception
\* (downloaded_data None at 294, read_csv at 306, chosen_meta None at 312,
\* to_pickle at 350)
BuildBundle(config, chosen_meta, dl_data, files, disk) ==
    IF dl_data = None THEN None
    ELSE LET loaded == {n \in dl_data[1] : n \in files}
         IN  IF \E n \in loaded : ~ FileContent(n).gzip THEN None
             ELSE IF config.strict_mode /\ loaded # {} /\ chosen_meta = None
             THEN None
             ELSE IF config.storage /\ disk # "ok" THEN None
             ELSE Some([meta |-> chosen_meta,
                        data |-> [n \in loaded |->
                            BundleEntry(n, chosen_meta, config.strict_mode)]])

DiskOutcomes == {"ok", "OSError"}

\* get_GEO and requests.get succeed or fail
NetOutcomes == {"ok", "down"}

\* lines 112-120: the transfer completes, fails before the local file is
\* opened (request, HTTP status, open), or fails while chunks are written
TransferOutcomes == {"ok", "request_failed", "stream_failed"}

\* the except branch of download_geo_data leaving the partial file
Cleanup_kept(files, local) == files

\* lines 121-124: the partial file is removed if it exists
Cleanup(files, local) == files \ {local}

\* download_geo_data without the test of lines 102-104
SkipDownload_never(local) == FALSE

\* lines 102-104: the local file exists, the download is skipped
SkipDownload(local) == local \in fs

\* the frame of a call that has come back: its locals are gone
ParserGone ==
    /\ pi_pc' = "idle"
    /\ number_parse' = None
    /\ max_length' = None
    /\ whitelist' = None
    /\ parse' = <<>>
    /\ result_list' = <<>>
    /\ is_confirm' = None
    /\ shown' = None
    /\ out' = <<>>
    /\ pi_ret' = RetNone
    /\ pi_exc' = ""

GroupSelectGone ==
    /\ gs_pc' = "idle"
    /\ gs_meta' = None
    /\ current_col' = ""
    /\ selected_col' = None
    /\ selected_group_indices' = RetNone
    /\ gs_exc' = NoExc

\* config_manager.py line 23: the data directory of the dataset
DataDir(config) == <<"data", config.gse_id>>

\* f"{gse_id}_processed_bundle.pkl"
BundleFileName(config) == <<config.gse_id, "_processed_bundle.pkl">>

\* _build_bundle, line 348
save_path(config) == DataDir(config) \o <<"pkl", BundleFileName(config)>>

\* main.py, lines 24 and 30
bundle_path(config) ==
    DataDir(config) \o <<config.gse_id, "pkl", BundleFileName(config)>>

\* FileAnalyzer.__init__, lines 281-282
data_path(config) ==
    DataDir(config) \o <<config.gse_id, "pkl", BundleFileName(config)>>

\* os.path.exists on the path of a pickled bundle
PickleExists(disk, path) == disk # None /\ disk[1].path = path

\* _build_bundle returning its bundle without keeping it
StoredData_dropped(data, old) == old

\* line 355: self._data = bundle, reached only with a bundle
StoredData(data, old) == IF data # None THEN data ELSE old

\* loader(), lines 76-80: _build_bundle and the return or the RuntimeError;
\* the locals of the call are gone
BuildAndReturn(chosen_meta, dl_data, files, done) ==
    \E disk \in DiskOutcomes :
        LET data == BuildBundle(cfg, chosen_meta, dl_data, files, disk)
        IN  /\ _data' = StoredData(data, _data)
            /\ pkl' = IF data # None /\ cfg.storage
                      THEN Some([path |-> save_path(cfg), bundle |-> data[1]])
                      ELSE pkl
            /\ l_ret' = IF data # None THEN RetBundle(data[1]) ELSE RetRaised
            /\ fx' = [done EXCEPT !.persisted = data # None /\ cfg.storage]
            /\ l_pc' = "idle"
            /\ gse' = None
            /\ candidates' = <<>>
            /\ todo' = <<>>
            /\ downloaded_data' = {}

\* loader(), lines 73-82, up to the prompt of line 199 or to the return; a
\* bundle is a dict with the key "meta", so "not self._data" tests for None
L_Call ==
    /\ l_pc = "idle"
    /\ UNCHANGED <<cfg, geo, fs, transfers, gvars, avars, mvars>>
    /\ IF _data # None
       THEN /\ l_ret' = RetBundle(_data[1])
            /\ fx' = NoFx
            /\ UNCHANGED <<pkl, l_pc, gse, candidates, todo, downloaded_data,
                           ovars, pvars>>
       ELSE \E net \in NetOutcomes :
            LET g == GetGse(cfg, geo, net)
                did == [NoFx EXCEPT !.fetch =
                           IF ~ IsGseId(cfg.gse_id) THEN "none"
                           ELSE IF net = "ok" THEN "ok" ELSE "failed"]
            IN  IF g = None \/ g[1].supplementary_file = <<>>
                THEN /\ BuildAndReturn(_chosen_meta, _download_data, fs,
                           [did EXCEPT !.error = IF g = None THEN 183 ELSE 186])
                     /\ UNCHANGED <<_chosen_meta, _download_data, pvars>>
                ELSE /\ gse' = g
                     /\ candidates' = Candidates(g[1].supplementary_file)
                     /\ PI_Call(None,
                           Some(Len(Candidates(g[1].supplementary_file))), None)
                     /\ l_pc' = "file_select"
                     /\ l_ret' = RetNothing
                     /\ fx' = [did EXCEPT !.prompted = TRUE]
                     /\ UNCHANGED <<pkl, todo, downloaded_data, ovars>>

\* lines 213-224 after the downloads: keep them, then _group_select(meta),
\* which prompts or raises at line 238
L_AfterDownloads(dl, files, done) ==
    IF dl = {}
    THEN /\ BuildAndReturn(_chosen_meta, _download_data, files,
                            [done EXCEPT !.error = 214])
         /\ UNCHANGED <<_chosen_meta, _download_data, gvars, pvars>>
    ELSE /\ _download_data' = Some(dl)
         /\ GS_Call(gse[1].phenotype_data)
         /\ l_pc' = "group_select"
         /\ todo' = <<>>
         /\ downloaded_data' = dl
         /\ fx' = done
         /\ UNCHANGED <<_data, _chosen_meta, pkl, gse, candidates, l_ret>>

\* lines 199-204: parse_interpreter came back with the file numbers
L_Files ==
    /\ l_pc = "file_select"
    /\ pi_pc \in {"returned", "raised"}
    /\ UNCHANGED <<cfg, geo, fs, transfers, avars, mvars>>
    /\ IF \/ pi_pc = "raised"
          \/ pi_ret.kind # "list"
          \/ \E k \in 1..Len(pi_ret.list) : pi_ret.list[k] >= Len(candidates)
          \/ pi_ret.list = <<>>
       THEN /\ BuildAndReturn(_chosen_meta, _download_data, fs,
                   [fx EXCEPT !.error =
                       IF pi_pc = "raised" THEN 199
                       ELSE IF pi_ret.list = <<>> THEN 214 ELSE 200])
            /\ ParserGone
            /\ UNCHANGED <<_chosen_meta, _download_data, gvars>>
       ELSE /\ todo' = [k \in 1..Len(pi_ret.list) |->
                           candidates[pi_ret.list[k] + 1]]
            /\ downloaded_data' = {}
            /\ l_pc' = "download"
            /\ ParserGone
            /\ UNCHANGED <<pkl, gse, candidates, l_ret, fx, ovars, gvars>>

\* the loop body forgetting the earlier files when a download fails
Recorded_reset(data, local, got) == IF got THEN data \cup {local} ELSE {}

\* lines 207-211: the path is kept under the base name unless it is None
Recorded(data, local, got) == IF got THEN data \cup {local} ELSE data

\* lines 204-216 with download_geo_data, lines 96-125: one selected url
L_Download ==
    /\ l_pc = "download"
    /\ UNCHANGED <<cfg, geo, avars, mvars>>
    /\ LET url == Head(todo)
           local == basename(url)
       IN  \E net \in (IF SkipDownload(local) THEN {"skip"}
                                                ELSE TransferOutcomes) :
           LET got == net \in {"skip", "ok"}
               files == IF net = "ok" THEN fs \cup {local}
                        ELSE IF net = "stream_failed"
                        THEN Cleanup(fs \cup {local}, local)
                        ELSE IF net = "request_failed"
                        THEN Cleanup(fs, local)
                        ELSE fs
               dl == Recorded(downloaded_data, local, got)
               done == IF net = "skip" THEN fx
                       ELSE [fx EXCEPT !.net = @ \cup {local}]
           IN  /\ fs' = files
               /\ transfers' = IF net = "ok"
                               THEN [transfers EXCEPT ![local] =
                                        IF @ < 2 THEN @ + 1 ELSE @]
                               ELSE transfers
               /\ IF Tail(todo) # <<>>
                  THEN /\ todo' = Tail(todo)
                       /\ downloaded_data' = dl
                       /\ fx' = done
                       /\ UNCHANGED <<pkl, l_pc, gse, candidates, l_ret,
                                      ovars, gvars, pvars>>
                  ELSE L_AfterDownloads(dl, files, done)

\* lines 224-229 and 76-80: _group_select came back, by line 271 or by an
\* exception that line 228 logs
L_Groups ==
    /\ l_pc = "group_select"
    /\ gs_pc \in {"returned", "raised"}
    /\ UNCHANGED <<cfg, geo, fs, transfers, _chosen_meta, _download_data,
                   avars, mvars>>
    /\ BuildAndReturn(_chosen_meta, _download_data, fs,
           [fx EXCEPT !.error = IF gs_pc = "raised" THEN 224 ELSE 0])
    /\ GroupSelectGone
    /\ ParserGone

\* main.py lines 33-39: a later run of the program (debug off) that finds no
\* bundle at bundle_path makes a new DataLoader
NewRun ==
    /\ l_pc = "idle"
    /\ l_ret # RetNothing
    /\ ~ PickleExists(pkl, bundle_path(cfg))
    /\ _data' = None
    /\ _chosen_meta' = None
    /\ _download_data' = None
    /\ l_ret' = RetNothing
    /\ fx' = NoFx
    /\ UNCHANGED <<cfg, geo, fs, pkl, l_pc, gse, candidates, todo,
                   downloaded_data, transfers, gvars, pvars, avars, mvars>>

\* ------------------------------------------------- correlation_calculater

\* most rows a matrix of the analysis has
MaxRows == 2

\* the row labels of a matrix with a label repeated, and the same gene once
\* more in capitals
DuplicateLabels == <<"Polb", "Polb", "POLB">>

\* Config.tar_gene
tar_gene == "Polb"

\* lines 73-79
hfm_dict ==
    << <<"Classic", <<"Acta2", "Vim", "Col1a1", "Col3a1">> >>,
       <<"Inflammation", <<"Il6", "Tnfa", "Il4", "Il1b">> >>,
       <<"Signaling_Advanced", <<"Tem1", "Arrb1", "Gas6", "Axl", "Pdgfb">> >>,
       <<"Apoptosis", <<"Fas", "Fasl", "Bcl2", "Trp53">> >>,
       <<"Hedgehog", <<"Ptch1", "Smo">> >> >>

\* str.upper() of a gene label
upper(label) ==
    CASE label \in {"Polb", "polb", "POLB"} -> "POLB"
      [] label \in {"Acta2", "ACTA2"} -> "ACTA2"
      [] label \in {"Vim", "VIM"} -> "VIM"
      [] label = "Col1a1" -> "COL1A1"
      [] label = "Col3a1" -> "COL3A1"
      [] label = "Il6" -> "IL6"
      [] label = "Tnfa" -> "TNFA"
      [] label = "Il4" -> "IL4"
      [] label = "Il1b" -> "IL1B"
      [] label = "Tem1" -> "TEM1"
      [] label = "Arrb1" -> "ARRB1"
      [] label = "Gas6" -> "GAS6"
      [] label = "Axl" -> "AXL"
      [] label = "Pdgfb" -> "PDGFB"
      [] label = "Fas" -> "FAS"
      [] label = "Fasl" -> "FASL"
      [] label = "Bcl2" -> "BCL2"
      [] label = "Trp53" -> "TRP53"
      [] label = "Ptch1" -> "PTCH1"
      [] label = "Smo" -> "SMO"
      [] OTHER -> label

\* a matrix read from a file: the row labels, the text columns in file order
\* (each a name and the value of each row), the numeric sample columns, and per
\* row the value of each sample (None for NaN)
Matrix(idx, sym, cols, cell) ==
    [kind |-> "matrix", index |-> idx, annot |-> sym, columns |-> cols,
     cell |-> cell]

\* a text column of a matrix
TextColumn(name, values) == [name |-> name, values |-> values]

\* str.upper() of one character of a column name
upper_char(c) ==
    CASE c = "a" -> "A" [] c = "c" -> "C" [] c = "d" -> "D" [] c = "e" -> "E"
      [] c = "g" -> "G" [] c = "n" -> "N" [] c = "s" -> "S"
      [] OTHER -> c

\* col.upper() of a column name
col_upper(name) == [i \in 1..Len(name) |-> upper_char(name[i])]

\* every text column taken for a gene column
potential_columns_all(df) == df.annot

\* line 40: the columns whose name holds SYMBOL or GENE, in file order
potential_columns(df) ==
    SelectSeq(df.annot,
        LAMBDA col : \/ StrIn(<<"S", "Y", "M", "B", "O", "L">>,
                              col_upper(col.name))
                     \/ StrIn(<<"G", "E", "N", "E">>, col_upper(col.name)))

\* line 25
IsDataFrame(df) == df.kind = "matrix"

\* pd.Series(dtype=float)
EmptySeries == [index |-> <<>>, val |-> <<>>]

RECURSIVE Gcd(_, _)
Gcd(a, b) == IF b = 0 THEN a ELSE Gcd(b, a % b)

RECURSIVE LcmUpTo(_)
\* the least number that 1..n all divide
LcmUpTo(n) ==
    IF n <= 1 THEN 1
    ELSE (n * LcmUpTo(n - 1)) \div Gcd(n, LcmUpTo(n - 1))

\* the most rows of a matrix: MaxRows, or those of DuplicateLabels
MostRows ==
    IF MaxRows > Len(DuplicateLabels) THEN MaxRows ELSE Len(DuplicateLabels)

\* a mean is kept as an integer, scaled by this: line 36 selects up to
\* MostRows * MostRows rows
MeanScale == LcmUpTo(MostRows * MostRows)

RECURSIVE Sum(_)
Sum(seq) == IF seq = <<>> THEN 0 ELSE Head(seq) + Sum(Tail(seq))

\* the positions of labels that match the gene without regard to case
MatchingRows(labels, gene) ==
    {i \in 1..Len(labels) : upper(labels[i]) = upper(gene)}

RECURSIVE Numbers(_, _, _)
\* the values that are not NaN of a sample over the rows, in row order
Numbers(df, rows, k) ==
    IF rows = <<>> THEN <<>>
    ELSE LET v == df.cell[Head(rows)][k]
         IN  (IF v = None THEN <<>> ELSE <<v[1]>>)
                 \o Numbers(df, Tail(rows), k)

\* line 58: DataFrame.mean(axis=0) over the rows, NaN skipped
MeanOver(df, rows) ==
    [index |-> df.columns,
     val |-> [k \in 1..Len(df.columns) |->
                LET nums == Numbers(df, rows, k)
                IN  IF nums = <<>> THEN None
                    ELSE Some(Sum(nums) * (MeanScale \div Len(nums)))]]

\* the positions of a set in increasing order
RowSeq(rows) == sorted(rows)

RECURSIVE LocRows(_, _)
\* line 36, df.loc[labels]: for each label in turn, every row that carries it
LocRows(index, labels) ==
    IF labels = <<>> THEN <<>>
    ELSE RowSeq({j \in 1..Len(index) : index[j] = Head(labels)})
             \o LocRows(index, Tail(labels))

\* line 36: df.index[index_upper == target_gene_upper], the labels of the rows
\* that match, one for each row
MatchingLabels(index, gene) ==
    LET hits == RowSeq(MatchingRows(index, gene))
    IN  [k \in 1..Len(hits) |-> index[hits[k]]]

RECURSIVE ByColumn(_, _)
\* lines 41-46: the rows matched in the first column that holds the gene
ByColumn(cols, gene) ==
    IF cols = <<>> THEN {}
    ELSE IF MatchingRows(Head(cols).values, gene) # {}
    THEN MatchingRows(Head(cols).values, gene)
    ELSE ByColumn(Tail(cols), gene)

\* fetch_gene_vector, lines 13-63
fetch_gene_vector(df, gene) ==
    IF ~ IsDataFrame(df) THEN EmptySeries
    ELSE LET by_index == MatchingRows(df.index, gene)
             rows == IF by_index # {}
                     THEN LocRows(df.index, MatchingLabels(df.index, gene))
                     ELSE RowSeq(ByColumn(potential_columns(df), gene))
         IN  IF rows = <<>> THEN EmptySeries
             ELSE IF df.columns = <<>> THEN EmptySeries
             ELSE MeanOver(df, rows)

\* Series.empty
IsEmptySeries(v) == v.index = <<>>

\* the value of a vector at a sample label
ValueAt(v, label) == v.val[CHOOSE k \in 1..Len(v.index) : v.index[k] = label]

RECURSIVE Shared(_, _, _)
\* lines 105-109: the samples of both vectors where neither value is NaN
Shared(labels, vec1, vec2) ==
    IF labels = <<>> THEN <<>>
    ELSE LET l == Head(labels)
             rest == Shared(Tail(labels), vec1, vec2)
         IN  IF /\ l \in set(vec2.index)
                /\ ValueAt(vec1, l) # None
                /\ ValueAt(vec2, l) # None
             THEN <<l>> \o rest
             ELSE rest

\* no vector is taken for level
ZeroStd_never(xs) == FALSE

\* Series.std() == 0: the values do not vary (NaN, not 0, below two values)
ZeroStd(xs) == Len(xs) >= 2 /\ \A i, j \in 1..Len(xs) : xs[i] = xs[j]

Sign(n) == IF n > 0 THEN 1 ELSE IF n < 0 THEN 0 - 1 ELSE 0

Abs(n) == IF n < 0 THEN 0 - n ELSE n

RECURSIVE GcdOf(_)
\* the greatest common divisor of the numbers of a sequence
GcdOf(seq) ==
    IF seq = <<>> THEN 0 ELSE Gcd(Abs(Head(seq)), GcdOf(Tail(seq)))

\* a vector that varies, moved and scaled to small whole numbers: r and p do
\* not change under either
Reduced(xs) ==
    LET moved == [i \in 1..Len(xs) |-> xs[i] - xs[1]]
    IN  IF GcdOf(moved) = 0 THEN moved
        ELSE [i \in 1..Len(xs) |-> moved[i] \div GcdOf(moved)]

\* n times the sum of the products of the deviations from the means
Codeviation(xs, ys) ==
    Sum([i \in 1..Len(xs) |->
            Sum([j \in 1..Len(xs) |->
                    IF i < j THEN (xs[i] - xs[j]) * (ys[i] - ys[j]) ELSE 0])])

\* r as its sign and the fraction num/den that is its square, in lowest
\* terms; p as n and the fraction 1 - r * r it is computed from. Both are nan
\* (den = 0) for a vector that does not vary
Coefficient(n, sign, square, var, g) ==
    IF g = 0
    THEN [R |-> [sign |-> 0, num |-> 0, den |-> 0],
          P_value |-> [n |-> n, num |-> 1, den |-> 0]]
    ELSE [R |-> [sign |-> sign, num |-> square \div g, den |-> var \div g],
          P_value |-> [n |-> n, num |-> (var - square) \div g,
                       den |-> var \div g]]

\* the coefficient from the codeviation and the product of the variations
Correlation(n, cov, var) ==
    Coefficient(n, Sign(cov), cov * cov, var, Gcd(cov * cov, var))

\* the coefficient of two reduced vectors
ReducedPearson(x, y) ==
    Correlation(Len(x), Codeviation(x, y),
                Codeviation(x, x) * Codeviation(y, y))

\* line 115: scipy.stats.pearsonr
pearsonr(xs, ys) == ReducedPearson(Reduced(xs), Reduced(ys))

\* r1 < r2
RLess(r1, r2) ==
    IF r1.sign # r2.sign THEN r1.sign < r2.sign
    ELSE IF r1.sign = 1 THEN r1.num * r2.den < r2.num * r1.den
    ELSE IF r1.sign = 0 - 1 THEN r1.num * r2.den > r2.num * r1.den
    ELSE FALSE

\* line 131, P_value < 0.05, for three samples: p = 1 - (2/pi) arcsin |r| is
\* below 0.05 when 1 - r * r is below cos(85.5 degrees) squared, 1/162.4477
Below005(p) ==
    \/ p.num = 0
    \/ /\ p.n = 3
       /\ LET q == p.den \div p.num
              rem == p.den % p.num
          IN  \/ q >= 163
              \/ q = 162 /\ 10000 * rem > 4477 * p.num

\* the cleaned vectors are never too short
TooShort_never(n) == FALSE

\* line 112: len(v1) < 3
TooShort(n) == n < 3

\* scipy_analyze, lines 92-116: None for (None, None)
scipy_analyze(vec1, vec2) ==
    LET labels == Shared(vec1.index, vec1, vec2)
        v1 == [i \in 1..Len(labels) |-> ValueAt(vec1, labels[i])[1]]
        v2 == [i \in 1..Len(labels) |-> ValueAt(vec2, labels[i])[1]]
    IN  IF TooShort(Len(v1)) \/ ZeroStd(v1) \/ ZeroStd(v2) THEN None
        ELSE Some(pearsonr(v1, v2))

RECURSIVE MarkerPairs(_)
\* lines 169-170: the (category, gene) pairs in the order of hfm_dict
MarkerPairs(dict) ==
    IF dict = <<>> THEN <<>>
    ELSE [k \in 1..Len(Head(dict)[2]) |->
             [Category |-> Head(dict)[1], Gene |-> Head(dict)[2][k]]]
         \o MarkerPairs(Tail(dict))

RECURSIVE MatrixRecords(_, _, _, _)
\* lines 169-187: the records of one bundle entry
MatrixRecords(name, df, target_vec, pairs) ==
    IF pairs = <<>> THEN <<>>
    ELSE LET marker_vec == fetch_gene_vector(df, Head(pairs).Gene)
             rp == IF ~ IsEmptySeries(marker_vec)
                   THEN scipy_analyze(target_vec, marker_vec)
                   ELSE None
         IN  (IF rp # None
              THEN << [Matrix |-> name, Category |-> Head(pairs).Category,
                       Gene |-> Head(pairs).Gene, R |-> rp[1].R,
                       P_value |-> rp[1].P_value] >>
              ELSE <<>>)
             \o MatrixRecords(name, df, target_vec, Tail(pairs))

\* dict.keys() of a bundle
Keys(bundle) == <<"meta">> \o bundle.order

RECURSIVE BundleRecords(_, _)
\* lines 159-187: the loop over the bundle, "meta" left out
BundleRecords(bundle, names) ==
    IF names = <<>> THEN <<>>
    ELSE (IF Head(names) = "meta" THEN <<>>
          ELSE MatrixRecords(Head(names), bundle.data[Head(names)],
                   fetch_gene_vector(bundle.data[Head(names)], tar_gene),
                   MarkerPairs(hfm_dict)))
         \o BundleRecords(bundle, Tail(names))

\* _calculater, lines 144-196: the result table, None without records
Calculater(bundle) ==
    LET results_list == BundleRecords(bundle, Keys(bundle))
    IN  IF results_list # <<>> THEN Some(results_list) ELSE None

\* Analyzer.__init__, lines 82-90, and DataAnalyzer.__init__, line 246
NewAnalyzer(class, bundle) ==
    [class |-> class, bundle |-> bundle, _bundle |-> None, _ana_res |-> None]

NoAnalyzer == NewAnalyzer("none", None)

NoResultFiles == [pkl |-> None, csv |-> None]

ARetNothing == [kind |-> "none", exc |-> "", value |-> None]

AReturned(res) == [kind |-> "returned", exc |-> "", value |-> Some(res)]

ARaised(e) == [kind |-> "raised", exc |-> e, value |-> None]

\* what is at data_path: no file, a file that does not unpickle, a pickle of
\* something that is no dict, of an empty dict, or of a bundle
BundleFile(state, bundle) == [state |-> state, bundle |-> bundle]

\* read_pkl, lines 284-315: the TypeError is raised again (line 309), the other
\* exceptions are logged and None is returned
read_pkl(file) ==
    CASE file.state = "not_dict" -> [exc |-> "TypeError", value |-> None]
      [] file.state = "ok" -> [exc |-> "", value |-> file.bundle]
      [] OTHER -> [exc |-> "", value |-> None]

\* _load_data: DataAnalyzer, lines 248-249; FileAnalyzer, lines 317-320
LoadData(a, file) ==
    IF a.class = "DataAnalyzer" THEN [exc |-> "", value |-> a.bundle]
    ELSE IF a._bundle # None THEN [exc |-> "", value |-> a._bundle]
    ELSE read_pkl(file)

\* os.makedirs and to_pickle / to_csv of _data_storage
StorageOutcomes == {"ok", "write_failed", "makedirs_failed"}

\* _data_storage, lines 198-231, for one format: the file afterwards
Stored(old, result_df, outcome) ==
    IF outcome = "ok" THEN Some(result_df) ELSE old

\* calculate, lines 136-137: the result kept in memory, if any (a kept table
\* has records)
CachedResult(a, files) == a._ana_res

\* data_analyzer handing an empty analysis to its caller
EmptyAnalysis_returned == [kind |-> "returned", exc |-> "", value |-> None]

\* lines 272-274 and 343-345: the bare raise, with no exception being handled
EmptyAnalysis == ARaised("RuntimeError")

\* what a call does: the analyzer and the result files after it, what it gave
\* its caller, and whether it ran _calculater
Outcome(a, files, ret, ran) ==
    [analyzer |-> a, res_files |-> files, ret |-> ret, ran |-> ran]

\* data_analyzer from line 266 on (line 338 on): a table with records is kept
\* and exported; without records, the bare raise
Analysed(kept, result_df, files, config) ==
    IF result_df = None \/ result_df[1] = <<>>
    THEN {Outcome(kept, files, EmptyAnalysis, TRUE)}
    ELSE {Outcome([kept EXCEPT !._ana_res = result_df],
                  IF ~ config.storage THEN files
                  ELSE [pkl |-> Stored(files.pkl, result_df[1], o[1]),
                        csv |-> IF o[1] = "makedirs_failed" THEN files.csv
                                ELSE Stored(files.csv, result_df[1], o[2])],
                  IF config.storage /\ "makedirs_failed" \in {o[1], o[2]}
                  THEN ARaised("OSError")
                  ELSE AReturned(result_df[1]),
                  TRUE) : o \in StorageOutcomes \X StorageOutcomes}

\* calculate, lines 134-142, with data_analyzer, lines 251-274 and 322-345:
\* the outcomes of one call
calculate(a, file, files, config) ==
    IF CachedResult(a, files) # None
    THEN {Outcome(a, files, AReturned(CachedResult(a, files)[1]), FALSE)}
    ELSE LET loaded == LoadData(a, file)
             kept == IF a.class = "FileAnalyzer"
                     THEN [a EXCEPT !._bundle = loaded.value]
                     ELSE a
         IN  IF loaded.exc # ""
             THEN {Outcome(a, files, ARaised(loaded.exc), FALSE)}
             ELSE IF loaded.value = None
             THEN {Outcome(kept, files, ARaised("AttributeError"), TRUE)}
             ELSE Analysed(kept, Calculater(loaded.value[1]), files, config)

\* a call of calculate()
A_Calculate ==
    /\ analyzer.class # "none"
    /\ UNCHANGED <<pvars, gvars, ovars, lvars, bundle_file, mvars>>
    /\ \E o \in calculate(analyzer, bundle_file, res_files, cfg) :
           /\ analyzer' = o.analyzer
           /\ res_files' = o.res_files
           /\ a_ret' = o.ret
           /\ a_ran' = o.ran
    /\ sig' = ARetNothing

\* line 131: the P_value < 0.05 of each record
Mask(table) == [i \in 1..Len(table) |-> Below005(table[i].P_value)]

RECURSIVE Masked(_, _, _)
\* line 131, table[mask]: the records from i on whose mask is set
Masked(table, mask, i) ==
    IF i > Len(table) THEN <<>>
    ELSE (IF mask[i] THEN <<table[i]>> ELSE <<>>) \o Masked(table, mask, i + 1)

RECURSIVE Inserted(_, _)
\* the record put into a table in ascending order of R, after its equals
Inserted(rec, table) ==
    IF table = <<>> THEN <<rec>>
    ELSE IF RLess(rec.R, Head(table).R) THEN <<rec>> \o table
    ELSE <<Head(table)>> \o Inserted(rec, Tail(table))

RECURSIVE sort_values(_)
\* line 131, sort_values('R'): Inserted for the records from the last to the
\* first, so that equal records keep their order
sort_values(table) ==
    IF table = <<>> THEN <<>>
    ELSE Inserted(Head(table), sort_values(Tail(table)))

\* the view left in the order of the table
significant_unsorted(first, second) == Masked(first, Mask(second), 1)

\* line 131: the view from what the two calls of calculate() gave
significant(first, second) ==
    sort_values(Masked(first, Mask(second), 1))

\* a read of the property significant, lines 128-132: calculate() twice
A_Significant ==
    /\ analyzer.class # "none"
    /\ UNCHANGED <<pvars, gvars, ovars, lvars, bundle_file, mvars>>
    /\ \E first \in calculate(analyzer, bundle_file, res_files, cfg) :
           IF first.ret.kind = "raised"
           THEN /\ analyzer' = first.analyzer
                /\ res_files' = first.res_files
                /\ a_ret' = first.ret
                /\ a_ran' = first.ran
                /\ sig' = ARaised(first.ret.exc)
           ELSE \E second \in calculate(first.analyzer, bundle_file,
                                        first.res_files, cfg) :
                /\ analyzer' = second.analyzer
                /\ res_files' = second.res_files
                /\ a_ret' = second.ret
                /\ a_ran' = (first.ran \/ second.ran)
                /\ sig' = IF second.ret.kind = "raised"
                          THEN ARaised(second.ret.exc)
                          ELSE AReturned(significant(first.ret.value[1],
                                                     second.ret.value[1]))

\* main.py lines 55-57: another analyzer of the same class on the same input
A_New ==
    /\ analyzer.class # "none"
    /\ a_ret.kind # "none"
    /\ analyzer' = NewAnalyzer(analyzer.class, analyzer.bundle)
    /\ a_ret' = ARetNothing
    /\ a_ran' = FALSE
    /\ sig' = ARetNothing
    /\ UNCHANGED <<pvars, gvars, ovars, lvars, bundle_file, res_files,
                   mvars>>

\* no analyzer has been made
NoAnalysis ==
    /\ analyzer = NoAnalyzer
    /\ bundle_file = BundleFile("missing", None)
    /\ res_files = NoResultFiles
    /\ a_ret = ARetNothing
    /\ a_ran = FALSE
    /\ sig = ARetNothing

\* ------------------------------------------------------------ the operator

\* number of samples of the series
NumSamples == 2

\* longest line the operator types at a prompt of the selection flows
MaxFlowLineLen == 3

FlowAlphabet == {"0", "1", ":", ",", "m"}

FlowLines == StringsUpTo(FlowAlphabet, MaxFlowLineLen)

SampleIds == <<"GSM1", "GSM2", "GSM3", "GSM4">>

ColumnLayouts ==
    { <<"title", "source">>, <<"source", "title">>, <<"source", "tissue">> }

GroupValues == {"ctl", "trt"}

\* the sample tables GEO serves: every column starts with "ctl" (the values
\* of a column are told apart only by their order of first appearance)
TablesOver(cols, idx) ==
    { Table(cols, idx, cell) :
        cell \in { c \in [set(idx) -> [set(cols) -> GroupValues]] :
                     \A col \in set(cols) : c[idx[1]][col] = "ctl" } }

MetaTables ==
    UNION { TablesOver(cols, SubSeq(SampleIds, 1, NumSamples)) :
              cols \in ColumnLayouts }

\* the lines the operator types at the prompts of loader()
LoaderAlphabet == {"0", "1", ","}

LoaderLines == StringsUpTo(LoaderAlphabet, MaxFlowLineLen) \cup {<<"m">>}

\* a sample table with two groups under "title" and one under "source"
SeriesTable ==
    LET idx == SubSeq(SampleIds, 1, NumSamples)
    IN  Table(<<"title", "source">>, idx,
              [i \in set(idx) |->
                 [col \in {"title", "source"} |->
                    IF col = "title" /\ i # idx[1] THEN "trt" ELSE "ctl"]])

\* a series without sample table
EmptyTable == Table(<<>>, <<>>, <<>>)

Manifests ==
    { <<>>, <<UrlRaw>>, <<UrlReadme, UrlCounts, UrlNotes>> }

FileNames == {basename(UrlCounts), basename(UrlNotes), basename(UrlReadme),
              basename(UrlRaw)}

Series ==
    [supplementary_file : Manifests, phenotype_data : {SeriesTable, EmptyTable}]

Configs ==
    [gse_id : {<<"G", "S", "E", "1">>, <<"G", "D", "S", "1">>},
     storage : BOOLEAN, strict_mode : BOOLEAN]

\* the sample columns of the matrices of the analysis
AnalysisSamples == <<"GSM1", "GSM2", "GSM3">>

\* the rows of values: rising, level, one value missing, not on a line
RowValues ==
    { <<Some(0), Some(1), Some(2)>>, <<Some(1), Some(1), Some(1)>>,
      <<Some(0), None, Some(1)>>, <<Some(0), Some(2), Some(1)>> }

RowLabels == {"Polb", "POLB", "Acta2"}

LabelsUpTo(n) == UNION {[1..k -> RowLabels] : k \in 0..n}

Matrices ==
    UNION { {Matrix(idx, <<>>, AnalysisSamples, cell) :
                cell \in [1..Len(idx) -> RowValues]} :
            idx \in LabelsUpTo(MaxRows) }

\* a matrix with probe ids as row labels and the genes in a column "SYMBOL"
SymbolMatrix ==
    Matrix(<<"1007_s_at", "1053_at">>,
           <<TextColumn(<<"S", "Y", "M", "B", "O", "L">>, <<"POLB", "Vim">>)>>,
           AnalysisSamples,
           << <<Some(0), Some(1), Some(2)>>, <<Some(2), Some(1), Some(0)>> >>)

\* the genes in a second column, "Gene_name", after an "ENSEMBL_GENE" column of
\* other identifiers
GeneNameMatrix ==
    Matrix(<<"1007_s_at", "1053_at">>,
           <<TextColumn(<<"E", "N", "S", "E", "M", "B", "L", "_", "G", "E", "N",
                          "E">>, <<"ENSG1", "ENSG2">>),
             TextColumn(<<"G", "e", "n", "e", "_", "n", "a", "m", "e">>,
                        <<"Polb", "Acta2">>)>>,
           AnalysisSamples,
           << <<Some(0), Some(1), Some(2)>>, <<Some(0), Some(2), Some(1)>> >>)

\* the genes in a column whose name holds neither SYMBOL nor GENE
DescMatrix ==
    Matrix(<<"1007_s_at", "1053_at">>,
           <<TextColumn(<<"D", "e", "s", "c">>, <<"Polb", "Acta2">>)>>,
           AnalysisSamples,
           << <<Some(0), Some(1), Some(2)>>, <<Some(0), Some(2), Some(1)>> >>)

\* a matrix without numeric columns
BareMatrix == Matrix(<<"Polb", "Acta2">>, <<>>, <<>>, << <<>>, <<>> >>)

DuplicateMatrix ==
    Matrix(DuplicateLabels, <<>>, AnalysisSamples,
           << <<Some(0), Some(1), Some(2)>>, <<Some(0), Some(1), Some(2)>>,
              <<Some(1), Some(1), Some(1)>> >>)

\* the entry _build_bundle makes in strict mode, lines 316-319
StrictPair ==
    [kind |-> "aligned", matrix_aligned |-> <<"GSM2">>,
     meta_aligned |-> <<"GSM2">>]

SecondMatrix ==
    Matrix(<<"Polb", "Acta2">>, <<>>, AnalysisSamples,
           << <<Some(0), Some(1), Some(2)>>, <<Some(0), Some(2), Some(1)>> >>)

\* the target and a marker rising together
RisingMatrix ==
    Matrix(<<"Polb", "Acta2">>, <<>>, AnalysisSamples,
           << <<Some(0), Some(1), Some(2)>>, <<Some(0), Some(1), Some(2)>> >>)

BundleOf(order, data) ==
    [meta |-> Some(SeriesTable), order |-> order, data |-> data]

\* the bundles handed to the analysis
AnalysisBundles ==
    {BundleOf(<<>>, <<>>)}
    \cup {BundleOf(<<"a.tsv.gz">>, [n \in {"a.tsv.gz"} |-> m]) :
             m \in Matrices \cup {SymbolMatrix, GeneNameMatrix, DescMatrix,
                                  DuplicateMatrix, BareMatrix, StrictPair}}
    \cup {BundleOf(<<"a.tsv.gz", "b.tsv.gz">>,
                   [n \in {"a.tsv.gz", "b.tsv.gz"} |->
                       IF n = "a.tsv.gz" THEN m ELSE SecondMatrix]) :
             m \in Matrices}
    \cup {BundleOf(<<"a.tsv.gz", "b.tsv.gz", "c.tsv.gz">>,
                   [n \in {"a.tsv.gz", "b.tsv.gz", "c.tsv.gz"} |->
                       CASE n = "a.tsv.gz" -> RisingMatrix
                         [] n = "b.tsv.gz" -> SecondMatrix
                         [] n = "c.tsv.gz" -> SymbolMatrix])}

\* the entry kept as the table read from the file
StrictEntry_flat(df, chosen_meta) == df

\* _build_bundle in strict mode, lines 310-319, for a matrix read from a file:
\* the pair that takes the place of the table
StrictEntry(df, chosen_meta) ==
    [kind |-> "aligned",
     matrix_aligned |-> intersection(chosen_meta.index, df.columns),
     meta_aligned |-> intersection(chosen_meta.index, df.columns)]

\* the bundle _build_bundle makes of the same files in strict mode
StrictBundle(bundle) ==
    [bundle EXCEPT !.data =
        [n \in DOMAIN bundle.data |->
            IF IsDataFrame(bundle.data[n])
            THEN StrictEntry(bundle.data[n], bundle.meta[1])
            ELSE bundle.data[n]]]

\* the bundles handed to the analysis under a configuration
BundlesFor(config) ==
    IF config.strict_mode
    THEN {StrictBundle(x) : x \in AnalysisBundles}
    ELSE AnalysisBundles

\* ------------------------------------------------------ main (src/main.py)

\* DataHandler(), config_manager.py: bundle and res_df, both None
DataHandler == [bundle |-> None, res_df |-> None]

\* no run of main
NoMain ==
    /\ m_pc = "none"
    /\ debug = FALSE
    /\ is_bundle = FALSE
    /\ is_res_df = FALSE
    /\ m_data = DataHandler
    /\ calculater = "none"
    /\ plotter = "none"

\* the key of a file in the bundle: os.path.basename(url) as one string
file_label(name) ==
    CASE name = basename(UrlCounts) -> "GSE1_raw.counts.tsv.gz"
      [] name = basename(UrlNotes) -> "GSE1_notes.txt"
      [] name = basename(UrlReadme) -> "README.txt"
      [] name = basename(UrlRaw) -> "GSE1_RAW.tar"

\* the table pd.read_csv makes of a file: the target and a marker over the
\* sample columns of the file
FileMatrix(name) ==
    Matrix(<<"Polb", "Acta2">>, <<>>, FileContent(name).columns,
           [i \in 1..2 |->
               [k \in 1..Len(FileContent(name).columns) |->
                   Some(IF i = 1 THEN k ELSE (k * k) % 5)]])

\* the files in the order the selection can download them
LoadOrder == <<basename(UrlCounts), basename(UrlNotes)>>

\* the bundle of _build_bundle as the analysis reads it: the keys in the order
\* of the dict, a flat entry as the table of its file
DataBundle(bundle) ==
    LET names == SelectSeq(LoadOrder, LAMBDA n : n \in DOMAIN bundle.data)
    IN  [meta |-> bundle.meta,
         order |-> [k \in 1..Len(names) |-> file_label(names[k])],
         data |-> [l \in {file_label(names[k]) : k \in 1..Len(names)} |->
                     LET n == CHOOSE n \in DOMAIN bundle.data :
                                  file_label(n) = l
                     IN  IF bundle.data[n].kind = "matrix" THEN FileMatrix(n)
                         ELSE bundle.data[n]]]

\* the bundle an earlier run has pickled under the configuration
EarlierBundle(config) ==
    BuildBundle(config, Some(SeriesTable), Some({basename(UrlCounts)}),
                {basename(UrlCounts)}, "ok")[1]

\* the result table an earlier run has written
EarlierResult ==
    Calculater(DataBundle(
        EarlierBundle([gse_id |-> <<"G", "S", "E", "1">>, storage |-> TRUE,
                       strict_mode |-> FALSE])))[1]

\* main, lines 54-57: the class of the analyzer
AnalyzerFor(bundle_cached) ==
    IF bundle_cached THEN "FileAnalyzer" ELSE "DataAnalyzer"

\* the in-memory plotter whenever a cache is missing
PlotterFor_missing(bundle_cached, res_cached) ==
    IF bundle_cached /\ res_cached THEN "FilePlotter" ELSE "DataPlotter"

\* main, lines 64-70: the class of the plotter
PlotterFor(bundle_cached, res_cached) ==
    IF bundle_cached /\ res_cached THEN "FilePlotter"
    ELSE IF \/ bundle_cached /\ ~ res_cached
            \/ res_cached /\ ~ bundle_cached
    THEN "FilePlotter"
    ELSE "DataPlotter"

\* main, lines 30-39: the bundle cache is looked for; without it, or in debug
\* mode, a DataLoader is made
M_Begin ==
    /\ m_pc = "start"
    /\ is_bundle' = (PickleExists(pkl, bundle_path(cfg)) /\ ~ debug)
    /\ m_pc' = IF is_bundle' THEN "analysis" ELSE "loading"
    /\ UNCHANGED <<debug, is_res_df, m_data, calculater, plotter>>
    /\ UNCHANGED <<pvars, gvars, ovars, lvars, avars>>

\* main, line 40: loader.loader() is called
M_Load ==
    /\ m_pc = "loading"
    /\ l_ret = RetNothing
    /\ L_Call

\* main, line 40: loader() has returned its bundle, or raised
M_Loaded ==
    /\ m_pc = "loading"
    /\ l_pc = "idle"
    /\ l_ret # RetNothing
    /\ IF l_ret.kind = "bundle"
       THEN /\ m_data' = [m_data EXCEPT !.bundle = l_ret.bundle]
            /\ m_pc' = "analysis"
       ELSE /\ m_pc' = "aborted"
            /\ UNCHANGED m_data
    /\ UNCHANGED <<debug, is_bundle, is_res_df, calculater, plotter>>
    /\ UNCHANGED <<pvars, gvars, ovars, lvars, avars>>

\* main, lines 45-59: the result cache is looked for; without it an analyzer
\* is made and calculate() is called
M_Analysis ==
    /\ m_pc = "analysis"
    /\ UNCHANGED <<pvars, gvars, ovars, lvars, bundle_file>>
    /\ UNCHANGED <<debug, is_bundle, plotter>>
    /\ is_res_df' = (res_files.pkl # None)
    /\ IF res_files.pkl # None
       THEN /\ m_pc' = "plot"
            /\ UNCHANGED <<analyzer, res_files, a_ret, a_ran, sig, m_data,
                           calculater>>
       ELSE /\ calculater' = AnalyzerFor(is_bundle)
            /\ \E o \in calculate(
                           NewAnalyzer(AnalyzerFor(is_bundle),
                               IF is_bundle THEN None
                               ELSE Some(DataBundle(m_data.bundle[1]))),
                           bundle_file, res_files, cfg) :
                   /\ analyzer' = o.analyzer
                   /\ res_files' = o.res_files
                   /\ a_ret' = o.ret
                   /\ a_ran' = o.ran
                   /\ sig' = ARetNothing
                   /\ IF o.ret.kind = "raised"
                      THEN m_pc' = "aborted" /\ UNCHANGED m_data
                      ELSE /\ m_pc' = "plot"
                           /\ m_data' = [m_data EXCEPT !.res_df = o.ret.value]

\* main, lines 63-70: the plotter is made
M_Plot ==
    /\ m_pc = "plot"
    /\ plotter' = PlotterFor(is_bundle, is_res_df)
    /\ m_pc' = "done"
    /\ UNCHANGED <<debug, is_bundle, is_res_df, m_data, calculater>>
    /\ UNCHANGED <<pvars, gvars, ovars, lvars, avars>>

\* the lines typed in a run of main
MainLines == {<<"0">>, <<"1">>, <<"0", ",", "1">>, <<"m">>}

\* ---------------------------------------------------------- specifications

vars == <<pvars, gvars, ovars, lvars, avars, mvars>>

ParserIdle ==
    /\ pi_pc = "idle"
    /\ number_parse = None
    /\ max_length = None
    /\ whitelist = None
    /\ parse = <<>>
    /\ result_list = <<>>
    /\ is_confirm = None
    /\ shown = None
    /\ out = <<>>
    /\ pi_ret = RetNone
    /\ pi_exc = ""

GroupSelectIdle ==
    /\ gs_pc = "idle"
    /\ gs_meta = None
    /\ current_col = ""
    /\ selected_col = None
    /\ selected_group_indices = RetNone
    /\ gs_exc = NoExc

\* DataLoader.__init__, lines 24-27
NewDataLoader ==
    /\ _data = None
    /\ _chosen_meta = None
    /\ _download_data = None

\* before the first loader() call: an empty dataset directory
LoaderIdle ==
    /\ fs = {}
    /\ pkl = None
    /\ l_pc = "idle"
    /\ gse = None
    /\ candidates = <<>>
    /\ todo = <<>>
    /\ downloaded_data = {}
    /\ l_ret = RetNothing
    /\ fx = NoFx
    /\ transfers = [n \in FileNames |-> 0]

\* the program run on one configuration against one series
OneSeries ==
    /\ cfg = [gse_id |-> <<"G", "S", "E", "1">>, storage |-> TRUE,
              strict_mode |-> FALSE]
    /\ geo = [supplementary_file |-> <<UrlCounts>>,
              phenotype_data |-> SeriesTable]
    /\ LoaderIdle
    /\ NoAnalysis
    /\ NoMain

PI_Read ==
    PI_ReadFrom(Lines) /\ UNCHANGED <<gvars, ovars, lvars, avars, mvars>>

PI_FlowRead ==
    PI_ReadFrom(FlowLines) /\ UNCHANGED <<gvars, ovars, lvars, avars, mvars>>

PI_LoaderRead ==
    PI_ReadFrom(LoaderLines) /\ UNCHANGED <<gvars, ovars, lvars, avars, mvars>>

PI_Step ==
    PI_Interpret /\ UNCHANGED <<gvars, ovars, lvars, avars, mvars>>

PI_Confirm ==
    PI_ConfirmFrom(Answers) /\ UNCHANGED <<gvars, ovars, lvars, avars, mvars>>

GS_GroupsStep == GS_Groups /\ UNCHANGED <<lvars, avars, mvars>>

GS_ColsStep == GS_Cols /\ UNCHANGED <<lvars, avars, mvars>>

\* parse_interpreter called on its own
InitParser ==
    /\ \E np \in {None} \cup {Some(l) : l \in NumberParseArgs},
          ml \in {None} \cup {Some(n) : n \in MaxLengths},
          wl \in {None, Some(<<"m">>)} :
          /\ pi_pc = "prompt"
          /\ number_parse = np
          /\ max_length = ml
          /\ whitelist = wl
    /\ parse = <<>>
    /\ result_list = <<>>
    /\ is_confirm = None
    /\ shown = None
    /\ out = <<>>
    /\ pi_ret = RetNone
    /\ pi_exc = ""
    /\ GroupSelectIdle
    /\ NewDataLoader
    /\ OneSeries

NextParser == PI_Read \/ PI_Step \/ PI_Confirm

SpecParser == InitParser /\ [][NextParser]_vars

\* _group_select(meta) called on a new DataLoader: the state at its first prompt
InitGroup ==
    /\ NewDataLoader
    /\ OneSeries
    /\ \E meta \in MetaTables :
          /\ gs_meta = meta
          /\ current_col = DefaultColumn(meta)
          /\ max_length = Some(Len(UniqueGroups(meta, DefaultColumn(meta))))
    /\ gs_pc = "groups"
    /\ selected_col = None
    /\ selected_group_indices = RetNone
    /\ gs_exc = NoExc
    /\ pi_pc = "prompt"
    /\ number_parse = None
    /\ whitelist = Some(<<"m">>)
    /\ parse = <<>>
    /\ result_list = <<>>
    /\ is_confirm = None
    /\ shown = None
    /\ out = <<>>
    /\ pi_ret = RetNone
    /\ pi_exc = ""

NextGroup ==
    PI_FlowRead \/ PI_Step \/ PI_Confirm \/ GS_GroupsStep \/ GS_ColsStep

SpecGroup == InitGroup /\ [][NextGroup]_vars

\* the program: loader() called on a DataLoader, run after run
Init ==
    /\ cfg \in Configs
    /\ geo \in Series
    /\ LoaderIdle
    /\ NoAnalysis
    /\ NoMain
    /\ NewDataLoader
    /\ ParserIdle
    /\ GroupSelectIdle

Next ==
    \/ L_Call
    \/ PI_LoaderRead
    \/ PI_Step
    \/ PI_Confirm
    \/ L_Files
    \/ L_Download
    \/ GS_GroupsStep
    \/ GS_ColsStep
    \/ L_Groups
    \/ NewRun

Spec == Init /\ [][Next]_vars

\* calculate() called on a DataAnalyzer made from a bundle in memory, or on a
\* FileAnalyzer with whatever is at data_path
InitAnalyzer ==
    /\ ParserIdle
    /\ GroupSelectIdle
    /\ NewDataLoader
    /\ LoaderIdle
    /\ cfg \in [gse_id : {<<"G", "S", "E", "1">>}, storage : BOOLEAN,
                strict_mode : BOOLEAN]
    /\ geo = [supplementary_file |-> <<UrlCounts>>,
              phenotype_data |-> SeriesTable]
    /\ \/ /\ analyzer \in {NewAnalyzer("DataAnalyzer", b) :
                  b \in {None} \cup {Some(x) : x \in BundlesFor(cfg)}}
          /\ bundle_file = BundleFile("missing", None)
       \/ /\ analyzer = NewAnalyzer("FileAnalyzer", None)
          /\ bundle_file \in
                {BundleFile(st, None) :
                    st \in {"missing", "unreadable", "not_dict", "empty"}}
                \cup {BundleFile("ok", Some(x)) : x \in BundlesFor(cfg)}
    /\ res_files = NoResultFiles
    /\ a_ret = ARetNothing
    /\ a_ran = FALSE
    /\ sig = ARetNothing
    /\ NoMain

NextAnalyzer == A_Calculate \/ A_Significant \/ A_New

SpecAnalyzer == InitAnalyzer /\ [][NextAnalyzer]_vars

PI_MainRead ==
    PI_ReadFrom(MainLines) /\ UNCHANGED <<gvars, ovars, lvars, avars, mvars>>

\* a run of main on a series with three supplementary files, with or without
\* a bundle and a result table left by an earlier run
InitMain ==
    /\ ParserIdle
    /\ GroupSelectIdle
    /\ NewDataLoader
    /\ cfg \in [gse_id : {<<"G", "S", "E", "1">>}, storage : BOOLEAN,
                strict_mode : BOOLEAN]
    /\ geo = [supplementary_file |-> <<UrlReadme, UrlCounts, UrlNotes>>,
              phenotype_data |-> SeriesTable]
    /\ fs = {}
    /\ pkl \in {None, Some([path |-> bundle_path(cfg),
                            bundle |-> EarlierBundle(cfg)])}
    /\ l_pc = "idle"
    /\ gse = None
    /\ candidates = <<>>
    /\ todo = <<>>
    /\ downloaded_data = {}
    /\ l_ret = RetNothing
    /\ fx = NoFx
    /\ transfers = [n \in FileNames |-> 0]
    /\ analyzer = NoAnalyzer
    /\ bundle_file = IF PickleExists(pkl, data_path(cfg))
                     THEN BundleFile("ok", Some(DataBundle(pkl[1].bundle)))
                     ELSE BundleFile("missing", None)
    /\ res_files \in {NoResultFiles,
                      [pkl |-> Some(EarlierResult), csv |-> Some(EarlierResult)]}
    /\ a_ret = ARetNothing
    /\ a_ran = FALSE
    /\ sig = ARetNothing
    /\ m_pc = "start"
    /\ debug \in BOOLEAN
    /\ is_bundle = FALSE
    /\ is_res_df = FALSE
    /\ m_data = DataHandler
    /\ calculater = "none"
    /\ plotter = "none"

NextMain ==
    \/ M_Begin
    \/ M_Load
    \/ PI_MainRead
    \/ PI_Step
    \/ PI_Confirm
    \/ L_Files
    \/ L_Download
    \/ GS_GroupsStep
    \/ GS_ColsStep
    \/ L_Groups
    \/ M_Loaded
    \/ M_Analysis
    \/ M_Plot

SpecMain == InitMain /\ [][NextMain]_vars

\* ------------------------------------------------ claims about the parser

Interactive == ~ TruthyStr(number_parse)

ReturnedList == pi_pc = "returned" /\ pi_ret.kind = "list"

\* a token the spec accepts: a non-negative integer, or a range a:b of two
GoodToken(t) ==
    LET s == strip(t)
        parts == split(s, ":")
    IN  \/ isdigit(s)
        \/ Len(parts) = 2 /\ isdigit(parts[1]) /\ isdigit(parts[2])

\* the integers a good token stands for
TokenSet(t) ==
    LET s == strip(t)
        parts == split(s, ":")
    IN  IF isdigit(s) THEN {int(s)} ELSE int(parts[1])..int(parts[2])

Tokens(line) == LET toks == split(line, ",") IN {toks[i] : i \in 1..Len(toks)}

\* C4: a returned integer list holds no index above max_length.
C4_NoIndexAboveMaxLength ==
    (ReturnedList /\ max_length # None)
        => \A i \in 1..Len(pi_ret.list) : pi_ret.list[i] <= max_length[1]

\* a line the spec has rejected: empty, or with a token that is no integer and
\* no range (the whitelisted token itself apart)
C5_Rejectable(line) ==
    /\ ~ (TruthyStr(whitelist) /\ strip(line) = whitelist[1])
    /\ line = <<>> \/ \E t \in Tokens(line) : ~ GoodToken(t)

\* C5: in interactive mode an empty line or a line with a token that is neither
\* an integer nor a range is rejected with a message and the prompt comes
\* again: the function neither returns nor raises.
C5_BadLineRepromptsStep ==
    (pi_pc = "line" /\ Interactive /\ C5_Rejectable(parse))
        => (pi_pc' = "prompt" /\ out' # <<>> /\ pi_exc' = "")

C5_BadLineReprompts == [][C5_BadLineRepromptsStep]_vars

C6_ConfirmStep ==
    pi_pc = "confirm" =>
        /\ is_confirm' # None
        /\ IF is_confirm'[1] = <<"n">>
           THEN pi_pc' = "prompt" /\ pi_ret' = RetNone
           ELSE pi_pc' = "returned" /\ pi_ret' = RetList(shown[1])

\* C6: an integer list is returned only after that list was echoed in the
\* confirmation prompt and the answer was not "n"; the answer "n" discards it
\* and leads to a new prompt, any other answer returns it.
C6_ListOnlyAfterConfirm ==
    /\ [](ReturnedList =>
            /\ shown = Some(pi_ret.list)
            /\ is_confirm # None /\ is_confirm[1] # <<"n">>)
    /\ [][C6_ConfirmStep]_vars

C6_Witness ==
    /\ ReturnedList /\ pi_ret.list = <<0, 1>>
    /\ is_confirm = Some(<<>>)

\* C7: with whitelist "m" (interactive) the function returns an integer list
\* or the literal "m", and the token, unconfirmed, exactly when the operator
\* typed it verbatim.
C7_TokenOnlyVerbatim ==
    (pi_pc = "returned" /\ Interactive /\ whitelist = Some(<<"m">>))
        => /\ pi_ret.kind \in {"list", "str"}
           /\ pi_ret.kind = "str" => (pi_ret.str = <<"m">> /\ shown = None)
           /\ pi_ret.kind = "str" <=> parse = <<"m">>

\* C8: a returned list is the union of the singles and of the ranges a..b of
\* the line, strictly increasing; "1:3,5" with max_length 10 gives [1,2,3,5].
C8_SortedUnion ==
    ReturnedList =>
        /\ \A t \in Tokens(parse) : GoodToken(t)
        /\ set(pi_ret.list) = UNION {TokenSet(t) : t \in Tokens(parse)}
        /\ \A i \in 1..(Len(pi_ret.list) - 1) :
              pi_ret.list[i] < pi_ret.list[i + 1]
        /\ (parse = <<"1", ":", "3", ",", "5">> /\ max_length = Some(10))
              => pi_ret.list = <<1, 2, 3, 5>>

C8_Witness ==
    /\ ReturnedList
    /\ parse = <<"1", ":", "3", ",", "5">> /\ max_length = Some(10)
    /\ pi_ret.list = <<1, 2, 3, 5>>

\* ------------------------------------------ claims about _group_select

\* C3: on inputs the parser accepts, _group_select leaves its loop only by
\* the filtering return of line 271, never by an exception.
C3_OnlyNormalExit == ~ (gs_pc = "raised" /\ pi_pc = "returned")

\* the column the claim names: "title" (else the first) until a column was
\* selected, then the column at the first index of the last selection
C9_Column ==
    IF selected_col = None
    THEN IF \E k \in 1..Len(gs_meta.columns) : gs_meta.columns[k] = "title"
         THEN "title"
         ELSE gs_meta.columns[1]
    ELSE gs_meta.columns[selected_col[1][1] + 1]

\* the unique values of that column at the selected indices
C9_Groups ==
    LET u == unique(Column(gs_meta, C9_Column))
    IN  {u[k + 1] : k \in set(selected_group_indices.list)}

\* C9: at termination the stored metadata is exactly the rows of the input
\* whose value in the current column is one of the selected unique values.
C9_FilteredByCurrentColumn ==
    gs_pc = "returned" =>
        /\ _chosen_meta # None
        /\ selected_group_indices.kind = "list"
        /\ \A k \in set(selected_group_indices.list) :
              k < Len(unique(Column(gs_meta, C9_Column)))
        /\ _chosen_meta[1].columns = gs_meta.columns
        /\ _chosen_meta[1].cell = gs_meta.cell
        /\ \A k \in 1..Len(_chosen_meta[1].index) :
              _chosen_meta[1].cell[_chosen_meta[1].index[k]][C9_Column]
                  \in C9_Groups
        /\ \A k \in 1..Len(gs_meta.index) :
              gs_meta.cell[gs_meta.index[k]][C9_Column] \in C9_Groups
                  => \E n \in 1..Len(_chosen_meta[1].index) :
                        _chosen_meta[1].index[n] = gs_meta.index[k]
        /\ \A m, n \in 1..Len(_chosen_meta[1].index) :
              m < n => \E a, b \in 1..Len(gs_meta.index) :
                          /\ a < b
                          /\ gs_meta.index[a] = _chosen_meta[1].index[m]
                          /\ gs_meta.index[b] = _chosen_meta[1].index[n]

\* a column was re-chosen and the filter kept one row of two
C9_Witness ==
    /\ gs_pc = "returned"
    /\ selected_col # None /\ current_col # DefaultColumn(gs_meta)
    /\ Len(_chosen_meta[1].index) = 1

\* ------------------------------------------------- claims about loader()

\* a download step on a url whose local file exists: nothing is requested
\* from the network and the name is among the downloaded paths
C1_SkipStep ==
    (l_pc = "download" /\ basename(Head(todo)) \in fs) =>
        /\ fx'.net = fx.net
        /\ transfers' = transfers
        /\ fs' = fs
        /\ \/ basename(Head(todo)) \in downloaded_data'
           \/ /\ _download_data' # None
              /\ basename(Head(todo)) \in _download_data'[1]

\* C1: download_geo_data on a url whose local file exists requests nothing from
\* the network and returns the local path; over all runs for the dataset a
\* file is transferred completely at most once
C1_SkipIfExists ==
    /\ [](\A n \in FileNames : transfers[n] <= 1)
    /\ [][C1_SkipStep]_vars

\* a file transferred in an earlier call came back from download_geo_data in
\* this call without a request
C1_Witness ==
    \E n \in downloaded_data :
        /\ l_pc \in {"download", "group_select"}
        /\ n \notin fx.net
        /\ transfers[n] = 1

\* a step from the state where loader() has returned a bundle: a new
\* DataLoader is made, or loader() returns the same bundle and nothing else
\* happens
C2_LaterCallStep ==
    (l_pc = "idle" /\ l_ret.kind = "bundle") =>
        \/ /\ _data' = None
           /\ l_ret' = RetNothing
        \/ /\ l_pc' = "idle"
           /\ l_ret' = l_ret
           /\ fx' = NoFx
           /\ fs' = fs
           /\ pkl' = pkl
           /\ transfers' = transfers
           /\ pi_pc' = "idle"

\* C2: once loader() has returned a bundle, every later loader() call on the
\* same DataLoader returns that bundle without fetch, prompt, download or
\* pickle
C2_Idempotent ==
    /\ [](l_ret.kind = "bundle" => _data = l_ret.bundle)
    /\ [][C2_LaterCallStep]_vars

\* a loader() call answered from _data: it returned a bundle and did nothing
C2_Witness ==
    /\ l_pc = "idle"
    /\ l_ret.kind = "bundle"
    /\ fx = NoFx

\* the call that just ended had a bad identifier, a failed fetch or an empty
\* manifest
C10_Cause ==
    /\ l_pc = "idle"
    /\ l_ret.kind # "none"
    /\ \/ ~ IsGseId(cfg.gse_id)
       \/ fx.fetch = "failed"
       \/ (fx.fetch = "ok" /\ geo.supplementary_file = <<>>)

\* C10: with a bad identifier, a failed fetch or an empty manifest, loader()
\* raises, and the call has shown no prompt, downloaded no file and pickled
\* nothing
C10_FailureRaises ==
    C10_Cause =>
        /\ l_ret.kind = "RuntimeError"
        /\ ~ fx.prompted
        /\ fx.net = {}
        /\ ~ fx.persisted

\* the names download_geo_data has returned a path for in the running or
\* just finished selection flow
C11_Returned ==
    downloaded_data \cup (IF _download_data = None THEN {} ELSE _download_data[1])

\* a download step: afterwards the local file exists exactly if the call
\* returned its path
C11_DownloadStep ==
    l_pc = "download" =>
        (basename(Head(todo)) \in fs' <=> basename(Head(todo)) \in C11_Returned')

C12_Available ==
    downloaded_data \cup
        (IF basename(Head(todo)) \in fs' THEN {basename(Head(todo))} ELSE {})

\* line 216 and the call of line 224 are reached with the available files;
\* _build_bundle follows the return of _group_select
C12_Proceeds ==
    /\ _download_data' = Some(C12_Available)
    /\ l_pc' = "group_select"

\* the loop goes on with the next selected url
C12_Continues ==
    /\ l_pc' = "download"
    /\ todo' = Tail(todo)
    /\ downloaded_data' = C12_Available

\* C12 as claimed: whichever downloads fail, the loop visits every selected
\* file and the run goes on to group selection and bundle building
C12_FailureNeverAborts ==
    [][l_pc = "download" =>
          IF Tail(todo) # <<>> THEN C12_Continues ELSE C12_Proceeds]_vars

\* C12 amended: whichever downloads fail, the loop visits every selected
\* file; the run goes on to group selection and bundle building when at least
\* one selected file is available, and with none available it goes to
\* _build_bundle without group selection
C12_FailureAbortsOnlyWhenAllFail ==
    [][l_pc = "download" =>
          IF Tail(todo) # <<>> THEN C12_Continues
          ELSE IF C12_Available # {} THEN C12_Proceeds
          ELSE /\ l_pc' = "idle"
               /\ l_ret'.kind # "none"
               /\ UNCHANGED <<_download_data, _chosen_meta, gvars, pvars>>]_vars

\* group selection runs on one of two selected files: the other one failed
C12_Witness ==
    /\ l_pc = "group_select"
    /\ \E n \in fx.net : n \notin fs
    /\ downloaded_data # {}

\* the loader() call that just ended logged an exception of the selection flow
C13_StepFailed ==
    /\ l_pc = "idle"
    /\ l_ret.kind # "none"
    /\ fx.error # 0

\* C13: a loader() call in which a step of the acquisition flow failed raises,
\* and loader() never returns a bundle whose "meta" entry is None
C13_ErrorYieldsNoBundle ==
    /\ C13_StepFailed => l_ret.kind = "RuntimeError"
    /\ l_ret.kind = "bundle" => l_ret.bundle[1].meta # None

\* DataFrame.empty (line 220): an axis of the table has length 0
C14_Empty(df) == df.columns = <<>> \/ df.index = <<>>

\* C14: _group_select is entered only with a non-empty sample table, and no
\* group-selection prompt is shown for an empty one
C14_GroupSelectOnlyNonEmpty ==
    l_pc = "group_select" =>
        /\ ~ C14_Empty(gs_meta)
        /\ pi_pc # "idle" => ~ C14_Empty(gse[1].phenotype_data)

\* C15: after a loader() call that pickled the bundle, the pickle is at the
\* path that main's cache test and the FileAnalyzer look at
C15_PickleWhereMainLooks ==
    (l_pc = "idle" /\ fx.persisted) =>
        /\ PickleExists(pkl, bundle_path(cfg))
        /\ PickleExists(pkl, data_path(cfg))

\* a bundle entry is the aligned pair of the file's matrix and the selected
\* sample table
C16_Aligned(entry, name, meta) ==
    /\ entry.kind = "aligned"
    /\ set(entry.matrix_aligned) =
           set(FileContent(name).columns) \cap set(meta.index)
    /\ set(entry.meta_aligned) = set(entry.matrix_aligned)
    /\ Len(entry.matrix_aligned) = Cardinality(set(entry.matrix_aligned))
    /\ Len(entry.meta_aligned) = Cardinality(set(entry.meta_aligned))

\* C16: in strict mode every non-meta entry of a returned bundle is an aligned
\* pair on the samples common to the raw matrix and the selected sample
\* table, all of them rows of the meta entry
C16_StrictAligned ==
    (cfg.strict_mode /\ l_ret.kind = "bundle") =>
        LET bundle == l_ret.bundle[1]
        IN  \A name \in DOMAIN bundle.data :
                /\ bundle.meta # None
                /\ C16_Aligned(bundle.data[name], name, bundle.meta[1])
                /\ set(bundle.data[name].matrix_aligned)
                       \subseteq set(bundle.meta[1].index)

\* a strict bundle whose matrix lost a sample column to the alignment
C16_Witness ==
    /\ cfg.strict_mode
    /\ l_ret.kind = "bundle"
    /\ \E name \in DOMAIN l_ret.bundle[1].data :
          /\ l_ret.bundle[1].data[name].matrix_aligned # <<>>
          /\ l_ret.bundle[1].data[name].matrix_aligned
                 # FileContent(name).columns

\* ------------------------------------------------ claims about calculate()

\* the bundle the analyzer works on: the one it was made from, or the one
\* pickled at data_path
AnalyzedBundle ==
    IF analyzer.class = "DataAnalyzer" THEN analyzer.bundle
    ELSE IF bundle_file.state = "ok" THEN bundle_file.bundle
    ELSE None

\* C17: when no matrix and marker of the bundle gives a record, calculate()
\* raises, keeps no result in memory and writes no result file
C17_EmptyAnalysisRaises ==
    (/\ a_ret.kind # "none"
     /\ AnalyzedBundle # None
     /\ BundleRecords(AnalyzedBundle[1], Keys(AnalyzedBundle[1])) = <<>>) =>
        /\ a_ret.kind = "raised"
        /\ analyzer._ana_res = None
        /\ res_files = NoResultFiles

\* calculate() has raised on a bundle that holds only "meta"
C17_Witness ==
    /\ a_ret.kind = "raised"
    /\ AnalyzedBundle # None
    /\ AnalyzedBundle[1].order = <<>>

\* the category hfm_dict lists the gene under
C18_Listed(category, gene) ==
    \E k \in 1..Len(hfm_dict) :
        hfm_dict[k][1] = category /\ gene \in set(hfm_dict[k][2])

\* a record of the result table comes from a matrix of the bundle in which
\* the target gene and the marker resolve to non-empty vectors that have a
\* coefficient
C18_Founded(rec, bundle) ==
    /\ rec.Matrix # "meta"
    /\ rec.Matrix \in set(bundle.order)
    /\ C18_Listed(rec.Category, rec.Gene)
    /\ \E target_vec \in
              {fetch_gene_vector(bundle.data[rec.Matrix], tar_gene)} :
       \E marker_vec \in
              {fetch_gene_vector(bundle.data[rec.Matrix], rec.Gene)} :
           /\ ~ IsEmptySeries(target_vec)
           /\ ~ IsEmptySeries(marker_vec)
           /\ \E rp \in {scipy_analyze(target_vec, marker_vec)} :
                  /\ rp # None
                  /\ rec.R = rp[1].R
                  /\ rec.P_value = rp[1].P_value

\* C18: every record of a returned result table is founded, and no two
\* records have the same matrix and gene
C18_RecordsFounded ==
    a_ret.kind = "returned" =>
        LET t == a_ret.value[1]
        IN  /\ \A i \in 1..Len(t) : C18_Founded(t[i], AnalyzedBundle[1])
            /\ \A i, j \in 1..Len(t) :
                   (t[i].Matrix = t[j].Matrix /\ t[i].Gene = t[j].Gene)
                       => i = j

\* a result table with records of two matrices
C18_Witness ==
    /\ a_ret.kind = "returned"
    /\ \E i, j \in 1..Len(a_ret.value[1]) :
           a_ret.value[1][i].Matrix # a_ret.value[1][j].Matrix

\* C19: calculate() on a new analyzer, with a result file of an earlier
\* analysis on disk, returns that result and does not run _calculater
C19_DiskResultReturned ==
    [][(/\ analyzer.class # "none"
        /\ a_ret.kind = "none"
        /\ res_files.pkl # None) =>
           /\ a_ret'.kind = "returned"
           /\ a_ret'.value = res_files.pkl
           /\ ~ a_ran']_vars

\* the exception that tells why the bundle at data_path cannot be used
C20_Cause(state) ==
    CASE state = "missing" -> "FileNotFoundError"
      [] state = "unreadable" -> "UnpicklingError"
      [] state = "not_dict" -> "TypeError"
      [] state = "empty" -> "ValueError"

\* C20: with no usable bundle at data_path, calculate() of the FileAnalyzer
\* raises the exception that tells the cause and returns no result
C20_LoadFailureSurfaces ==
    (/\ analyzer.class = "FileAnalyzer"
     /\ bundle_file.state # "ok"
     /\ a_ret.kind # "none") =>
        /\ a_ret.kind = "raised"
        /\ a_ret.exc = C20_Cause(bundle_file.state)

\* C21: once an analysis has computed a result with records, calculate()
\* returns it and keeps it in _ana_res, whatever error the exports meet
C21_StorageFailureHarmless ==
    (a_ret.kind # "none" /\ analyzer._ana_res # None) =>
        /\ a_ret.kind = "returned"
        /\ a_ret.value = analyzer._ana_res

\* --------------------------------------- claims about fetch_gene_vector

\* the genes the analysis resolves: the target and the markers
C22_Genes ==
    {tar_gene} \cup {MarkerPairs(hfm_dict)[k].Gene :
                        k \in 1..Len(MarkerPairs(hfm_dict))}

\* the column name holds SYMBOL or GENE, whatever the case of its letters
C22_GeneColumn(name) ==
    \E word \in {<<"S", "Y", "M", "B", "O", "L">>, <<"G", "E", "N", "E">>} :
        StrIn(word, col_upper(name))

\* the gene is, but for case, a row label or a value of a gene column
C22_Present(df, gene) ==
    \/ \E i \in 1..Len(df.index) : upper(df.index[i]) = upper(gene)
    \/ \E k \in 1..Len(df.annot) :
           /\ C22_GeneColumn(df.annot[k].name)
           /\ \E i \in 1..Len(df.annot[k].values) :
                  upper(df.annot[k].values[i]) = upper(gene)

\* C22: in every bundle calculate() has been called on, a gene that is neither
\* a row label nor a value of a SYMBOL/GENE column of a matrix resolves to the
\* empty vector, and so does every gene in an entry that is no table
C22_AbsentGeneEmpty ==
    (a_ret.kind # "none" /\ AnalyzedBundle # None) =>
        \A n \in set(AnalyzedBundle[1].order) : \A gene \in C22_Genes :
            LET df == AnalyzedBundle[1].data[n]
            IN  (~ IsDataFrame(df) \/ ~ C22_Present(df, gene)) =>
                    fetch_gene_vector(df, gene) = EmptySeries

\* calculate() has run on a matrix that holds the target gene only in a text
\* column that is no gene column
C22_Witness ==
    /\ a_ran
    /\ AnalyzedBundle # None
    /\ \E n \in set(AnalyzedBundle[1].order) :
           LET df == AnalyzedBundle[1].data[n]
           IN  /\ IsDataFrame(df)
               /\ ~ C22_Present(df, tar_gene)
               /\ \E k \in 1..Len(df.annot) :
                      tar_gene \in set(df.annot[k].values)
               /\ IsEmptySeries(fetch_gene_vector(df, tar_gene))

\* the rows that match the gene but for case: by label, else in a gene column
C23_Matching(df, gene) ==
    IF \E i \in 1..Len(df.index) : upper(df.index[i]) = upper(gene)
    THEN {i \in 1..Len(df.index) : upper(df.index[i]) = upper(gene)}
    ELSE ByColumn(potential_columns(df), gene)

\* C23: in every bundle calculate() has been called on, a gene that several
\* rows of a matrix match resolves to the mean, sample by sample, over those
\* rows, each row taken once
C23_MeanOverMatchingRows ==
    (a_ret.kind # "none" /\ AnalyzedBundle # None) =>
        \A n \in set(AnalyzedBundle[1].order) : \A gene \in C22_Genes :
            LET df == AnalyzedBundle[1].data[n]
            IN  (/\ IsDataFrame(df)
                 /\ df.columns # <<>>
                 /\ Cardinality(C23_Matching(df, gene)) >= 2) =>
                    fetch_gene_vector(df, gene)
                        = MeanOver(df, RowSeq(C23_Matching(df, gene)))

\* ------------------------------------------- claims about scipy_analyze

\* the samples both vectors have a value for
C24_Common(vec1, vec2) ==
    {l \in set(vec1.index) \cap set(vec2.index) :
        ValueAt(vec1, l) # None /\ ValueAt(vec2, l) # None}

\* the vector takes two different values on the samples
C24_Varies(vec, samples) ==
    \E l1, l2 \in samples : ValueAt(vec, l1) # ValueAt(vec, l2)

\* scipy_analyze gives a pair exactly when three samples or more are common
\* and both vectors vary on them
C24_PairIffEnough(vec1, vec2) ==
    LET samples == C24_Common(vec1, vec2)
    IN  scipy_analyze(vec1, vec2) # None
            <=> /\ Cardinality(samples) >= 3
                /\ C24_Varies(vec1, samples)
                /\ C24_Varies(vec2, samples)

C25_Significant(table) ==
    {table[i] : i \in {k \in 1..Len(table) : Below005(table[k].P_value)}}

\* C25: a read of significant that returns gives the records of the result
\* table with P_value < 0.05, each once, in ascending order of R, and leaves
\* a result table kept before the read as it was
C25_ViewOfSignificant ==
    [][sig'.kind = "returned" =>
          /\ analyzer'._ana_res # None
          /\ LET view == sig'.value[1]
                 table == analyzer'._ana_res[1]
             IN  /\ set(view) = C25_Significant(table)
                 /\ Len(view) = Cardinality(C25_Significant(table))
                 /\ \A i, j \in 1..Len(view) :
                        i < j => ~ RLess(view[j].R, view[i].R)
          /\ analyzer._ana_res # None =>
                 analyzer'._ana_res = analyzer._ana_res]_vars

\* significant has been read on a kept table: the view has two records in
\* another order than the table has them, and leaves a record out
C25_Witness ==
    /\ sig.kind = "returned"
    /\ ~ a_ran
    /\ Len(sig.value[1]) = 2
    /\ Len(analyzer._ana_res[1]) = 3
    /\ sig.value[1][1] = analyzer._ana_res[1][3]
    /\ sig.value[1][2] = analyzer._ana_res[1][1]

\* C26: _ana_res is set only by a call that ran the analysis and got a table
\* with records; once it is set, a call of calculate() or a read of
\* significant returns that table and neither runs the analysis nor touches
\* the analyzer or the files; and a call that raised leaves _ana_res unset
C26_CacheSetOnlyBySuccess ==
    [][a_ret'.kind # "none" =>
          /\ (analyzer._ana_res = None /\ analyzer'._ana_res # None) =>
                 a_ran' /\ analyzer'._ana_res[1] # <<>>
          /\ analyzer._ana_res # None =>
                 /\ a_ret' = AReturned(analyzer._ana_res[1])
                 /\ ~ a_ran'
                 /\ analyzer' = analyzer
                 /\ res_files' = res_files
          /\ a_ret'.kind = "raised" => analyzer'._ana_res = None]_vars

\* ------------------------------------------- claims about file selection

\* C27: every index the parser returns to the file selection is a position of
\* the candidate list, counted from 0, and the flow does not fail at the
\* lookup of a selected file
C27_SelectedIndexValid ==
    /\ (l_pc = "file_select" /\ pi_pc = "returned" /\ pi_ret.kind = "list") =>
           \A k \in 1..Len(pi_ret.list) :
               pi_ret.list[k] \in 0..(Len(candidates) - 1)
    /\ fx.error # 200

\* ---------------------------------------- claims about strict-mode bundles

\* C28: on a bundle built in strict mode every gene of every entry resolves to
\* the empty vector, calculate() raises, no read of significant returns, and
\* no result table is kept in memory or written
C28_StrictBundleNoResult ==
    (cfg.strict_mode /\ a_ret.kind # "none") =>
        /\ a_ret.kind = "raised"
        /\ sig.kind # "returned"
        /\ analyzer._ana_res = None
        /\ res_files = NoResultFiles
        /\ AnalyzedBundle # None =>
               \A n \in set(AnalyzedBundle[1].order) : \A gene \in C22_Genes :
                   IsEmptySeries(
                       fetch_gene_vector(AnalyzedBundle[1].data[n], gene))

\* calculate() has run and raised on a strict-mode bundle whose entry pairs
\* the columns of a matrix with the samples of meta
C28_Witness ==
    /\ cfg.strict_mode
    /\ a_ran
    /\ a_ret = ARaised("RuntimeError")
    /\ AnalyzedBundle # None
    /\ \E n \in set(AnalyzedBundle[1].order) :
           /\ AnalyzedBundle[1].data[n].kind = "aligned"
           /\ AnalyzedBundle[1].data[n].matrix_aligned # <<>>

\* ---------------------------------------------------- claims about main

\* loader() has returned a bundle in this run, and main holds it
C29_BundleOfThisRun ==
    /\ l_ret.kind = "bundle"
    /\ m_data.bundle # None
    /\ m_data.bundle = l_ret.bundle

\* calculate() has returned a result table in this run, and main holds it
C29_ResultOfThisRun ==
    /\ a_ret.kind = "returned"
    /\ m_data.res_df = a_ret.value

\* C29: a DataAnalyzer is made only of a bundle loader() returned in this
\* run; the analyzer made is a FileAnalyzer exactly when loader() was not
\* called because the pickled bundle was found with debug off; a DataPlotter
\* is made only when the bundle and the result table are both of this run,
\* and a FilePlotter in every other case
C29_InMemoryOnlyOfThisRun ==
    /\ calculater = "DataAnalyzer" => C29_BundleOfThisRun
    /\ calculater # "none" =>
           (calculater = "FileAnalyzer"
               <=> /\ l_ret = RetNothing
                   /\ PickleExists(pkl, bundle_path(cfg))
                   /\ ~ debug)
    /\ plotter = "DataPlotter" =>
           /\ calculater = "DataAnalyzer"
           /\ C29_BundleOfThisRun
           /\ C29_ResultOfThisRun
    /\ m_pc = "done" =>
           /\ plotter \in {"DataPlotter", "FilePlotter"}
           /\ plotter = "FilePlotter"
                  <=> ~ (C29_BundleOfThisRun /\ C29_ResultOfThisRun)

\* main has made a DataPlotter, after a loader() call in debug mode with the
\* pickled bundle on disk
C29_Witness ==
    /\ m_pc = "done"
    /\ plotter = "DataPlotter"
    /\ calculater = "DataAnalyzer"
    /\ debug

====
